---------------------------- MODULE Spec2Model ----------------------------
(***************************************************************************)
(* A model of the coin analyzer service (src/main.py): the response        *)
(* normalizer extract_json, the field resolver extract_field_value, the    *)
(* text-pattern fallback enhance_with_text_analysis, the report builder    *)
(* create_beautiful_response and the request handler analyze_coin.         *)
(*                                                                         *)
(* A text is a sequence of one-character strings, so that the regular      *)
(* expressions, the JSON decoder and the substring tests of the source are *)
(* computed character by character; the string "BT" stands for the        *)
(* backtick character, "e_acute", "c_cedilla" and "n_tilde" for the three  *)
(* accented letters of the keyword tables.  A JSON value is a record of    *)
(* one fixed shape (tag t, number n, characters s, keys k, children kids). *)
(***************************************************************************)
EXTENDS Integers, Sequences, FiniteSets, TLC

VARIABLES
    \* the normalizer: its text, its value, the value serialized and normalized again
    text, result, text2, result2, npc,
    \* the field resolver: its three arguments and the value it returns
    data, possible_names, default, value, rpc,
    \* the text-pattern fallback: its two arguments, the second updated in place
    raw_text, response, epc,
    \* the service configuration read at start-up
    AZURE_OPENAI_API_KEY, AZURE_OPENAI_ENDPOINT,
    \* one request to /analyze: the declared media type of the upload, where
    \* the handler stands, the outbound calls made, what the remote service
    \* did, its completion, the report before the fallback, whether the
    \* fallback ran, which branch built the body, and the answer
    content_type, pc, calls, upstream, raw_analysis, beautiful_response, enhanced,
    branch, status_code, content,
    \* the report builder: the parsed completion it is given and what it returns
    parsed_analysis, built, bpc

(***************************************************************************)
(* Bounds of the model.                                                    *)
(***************************************************************************)
\* The number of pieces an input text of the normalizer is made of.
MaxPieces == 4
\* The length of an alias list handed to the field resolver.
MaxAliases == 2
\* The number of phrases a completion scanned by the fallback is made of.
MaxPhrases == 3

(***************************************************************************)
(* Texts.                                                                  *)
(***************************************************************************)
\* s[i..] starts with p
StartsAt(s, p, i) ==
    /\ i >= 1
    /\ i + Len(p) - 1 <= Len(s)
    /\ \A j \in 1..Len(p) : s[i + j - 1] = p[j]

\* The least position >= from at which p occurs in s, 0 when there is none.
Find(s, p, from) ==
    LET hits == {i \in from..(Len(s) - Len(p) + 1) : StartsAt(s, p, i)}
    IN  IF hits = {} THEN 0 ELSE CHOOSE i \in hits : \A j \in hits : i <= j

\* The greatest position at which p occurs in s, 0 when there is none.
FindLast(s, p) ==
    LET hits == {i \in 1..(Len(s) - Len(p) + 1) : StartsAt(s, p, i)}
    IN  IF hits = {} THEN 0 ELSE CHOOSE i \in hits : \A j \in hits : i >= j

\* Python's "p in s".
Contains(s, p) == Find(s, p, 1) # 0

\* Python's s.startswith(p).
StartsWith(s, p) == StartsAt(s, p, 1)

RECURSIVE Concat(_)
Concat(ss) == IF ss = <<>> THEN <<>> ELSE Head(ss) \o Concat(Tail(ss))

\* The characters str.strip() removes and the JSON decoder skips.
IsWs(c) == c \in {" ", "\n", "\t", "\r"}

RECURSIVE LStrip(_)
LStrip(s) == IF s # <<>> /\ IsWs(Head(s)) THEN LStrip(Tail(s)) ELSE s

RECURSIVE RStrip(_)
RStrip(s) ==
    IF s # <<>> /\ IsWs(s[Len(s)]) THEN RStrip(SubSeq(s, 1, Len(s) - 1)) ELSE s

\* Python's s.strip().
Strip(s) == RStrip(LStrip(s))

(***************************************************************************)
(* JSON values.                                                            *)
(***************************************************************************)
JV(t, n, s, k, kids) == [t |-> t, n |-> n, s |-> s, k |-> k, kids |-> kids]
JNull == JV("null", 0, <<>>, <<>>, <<>>)
JTrue == JV("true", 0, <<>>, <<>>, <<>>)
JFalse == JV("false", 0, <<>>, <<>>, <<>>)
JNum(n) == JV("num", n, <<>>, <<>>, <<>>)
JStr(s) == JV("str", 0, s, <<>>, <<>>)
JArr(kids) == JV("arr", 0, <<>>, <<>>, kids)
JObj(k, kids) == JV("obj", 0, <<>>, k, kids)

\* isinstance(v, dict)
IsDict(v) == v.t = "obj"

\* key in d
HasKey(d, key) == \E i \in 1..Len(d.k) : d.k[i] = key

\* d[key]
Get(d, key) == d.kids[CHOOSE i \in 1..Len(d.k) : d.k[i] = key]

\* d[key] = v: a key already present keeps its place and takes the new value.
Put(d, key, v) ==
    IF HasKey(d, key)
    THEN JObj(d.k, [i \in 1..Len(d.k) |-> IF d.k[i] = key THEN v ELSE d.kids[i]])
    ELSE JObj(Append(d.k, key), Append(d.kids, v))

\* Python's truth value of a decoded JSON value.
Truthy(v) ==
    CASE v.t = "null" -> FALSE
      [] v.t = "false" -> FALSE
      [] v.t = "true" -> TRUE
      [] v.t = "num" -> v.n # 0
      [] v.t = "str" -> v.s # <<>>
      [] v.t = "arr" -> v.kids # <<>>
      [] v.t = "obj" -> v.k # <<>>

(***************************************************************************)
(* json.loads, for texts made of whitespace, the six structural            *)
(* characters, string literals with the escapes \" \\ \/ \n \t \r,         *)
(* unsigned integers and the literals null, true and false.  The input     *)
(* texts of the model hold no other escape, sign, fraction or exponent.    *)
(***************************************************************************)
Digits == <<"0", "1", "2", "3", "4", "5", "6", "7", "8", "9">>
IsDigit(c) == \E d \in 1..10 : Digits[d] = c
DigitVal(c) == (CHOOSE d \in 1..10 : Digits[d] = c) - 1

PFail == [ok |-> FALSE, v |-> JNull, next |-> 0]
POk(v, next) == [ok |-> TRUE, v |-> v, next |-> next]

RECURSIVE SkipWs(_, _)
SkipWs(s, i) == IF i <= Len(s) /\ IsWs(s[i]) THEN SkipWs(s, i + 1) ELSE i

\* The character an escape stands for, <<>> when the escape is not one.
Unescape(c) ==
    CASE c = "\"" -> <<"\"">>
      [] c = "\\" -> <<"\\">>
      [] c = "/" -> <<"/">>
      [] c = "n" -> <<"\n">>
      [] c = "t" -> <<"\t">>
      [] c = "r" -> <<"\r">>
      [] OTHER -> <<>>

\* A string literal from the character after its opening quote.
RECURSIVE ParseString(_, _, _)
ParseString(s, i, acc) ==
    IF i > Len(s) THEN PFail
    ELSE IF s[i] = "\"" THEN POk(JStr(acc), i + 1)
    ELSE IF s[i] = "\\"
         THEN IF i + 1 <= Len(s) /\ Unescape(s[i + 1]) # <<>>
              THEN ParseString(s, i + 2, acc \o Unescape(s[i + 1]))
              ELSE PFail
    ELSE IF s[i] \in {"\n", "\t", "\r"} THEN PFail
    ELSE ParseString(s, i + 1, Append(acc, s[i]))

RECURSIVE ParseDigits(_, _, _)
ParseDigits(s, i, n) ==
    IF i <= Len(s) /\ IsDigit(s[i])
    THEN ParseDigits(s, i + 1, 10 * n + DigitVal(s[i]))
    ELSE POk(JNum(n), i)

RECURSIVE ParseValue(_, _)
RECURSIVE ParseElems(_, _, _)
RECURSIVE ParseMembers(_, _, _)

\* The elements of an array from the first character of an element.
ParseElems(s, i, acc) ==
    LET r == ParseValue(s, i)
        j == SkipWs(s, r.next)
    IN  IF ~r.ok \/ j > Len(s) THEN PFail
        ELSE IF s[j] = "]" THEN POk(JArr(Append(acc, r.v)), j + 1)
        ELSE IF s[j] = "," THEN ParseElems(s, SkipWs(s, j + 1), Append(acc, r.v))
        ELSE PFail

\* The members of an object from the opening quote of a key.
ParseMembers(s, i, acc) ==
    IF i > Len(s) \/ s[i] # "\"" THEN PFail
    ELSE
    LET key == ParseString(s, i + 1, <<>>)
        c == SkipWs(s, key.next)
    IN  IF ~key.ok \/ c > Len(s) \/ s[c] # ":" THEN PFail
        ELSE
        LET r == ParseValue(s, SkipWs(s, c + 1))
            j == SkipWs(s, r.next)
            d == Put(acc, key.v.s, r.v)
        IN  IF ~r.ok \/ j > Len(s) THEN PFail
            ELSE IF s[j] = "}" THEN POk(d, j + 1)
            ELSE IF s[j] = "," THEN ParseMembers(s, SkipWs(s, j + 1), d)
            ELSE PFail

\* The value that starts at s[i].
ParseValue(s, i) ==
    IF i > Len(s) THEN PFail
    ELSE IF s[i] = "\"" THEN ParseString(s, i + 1, <<>>)
    ELSE IF s[i] = "{"
         THEN LET j == SkipWs(s, i + 1)
              IN  IF j <= Len(s) /\ s[j] = "}" THEN POk(JObj(<<>>, <<>>), j + 1)
                  ELSE ParseMembers(s, j, JObj(<<>>, <<>>))
    ELSE IF s[i] = "["
         THEN LET j == SkipWs(s, i + 1)
              IN  IF j <= Len(s) /\ s[j] = "]" THEN POk(JArr(<<>>), j + 1)
                  ELSE ParseElems(s, j, <<>>)
    ELSE IF StartsAt(s, <<"n", "u", "l", "l">>, i) THEN POk(JNull, i + 4)
    ELSE IF StartsAt(s, <<"t", "r", "u", "e">>, i) THEN POk(JTrue, i + 4)
    ELSE IF StartsAt(s, <<"f", "a", "l", "s", "e">>, i) THEN POk(JFalse, i + 5)
    ELSE IF s[i] = "0" THEN POk(JNum(0), i + 1)
    ELSE IF IsDigit(s[i]) THEN ParseDigits(s, i, 0)
    ELSE PFail

\* json.loads(s): ok is FALSE where it raises json.JSONDecodeError.
Loads(s) ==
    LET r == ParseValue(s, SkipWs(s, 1))
    IN  IF r.ok /\ SkipWs(s, r.next) = Len(s) + 1
        THEN [ok |-> TRUE, v |-> r.v]
        ELSE [ok |-> FALSE, v |-> JNull]

(***************************************************************************)
(* JSON serialization (json.JSONEncoder with its default separators).      *)
(***************************************************************************)
RECURSIVE NatChars(_)
NatChars(n) ==
    IF n < 10 THEN <<Digits[n + 1]>>
    ELSE Append(NatChars(n \div 10), Digits[(n % 10) + 1])

EscapeChar(c) ==
    CASE c = "\"" -> <<"\\", "\"">>
      [] c = "\\" -> <<"\\", "\\">>
      [] c = "\n" -> <<"\\", "n">>
      [] c = "\t" -> <<"\\", "t">>
      [] c = "\r" -> <<"\\", "r">>
      [] OTHER -> <<c>>

Quote(s) == <<"\"">> \o Concat([i \in 1..Len(s) |-> EscapeChar(s[i])]) \o <<"\"">>

\* The texts of ts with ", " between them.
RECURSIVE Join(_)
Join(ts) ==
    IF ts = <<>> THEN <<>>
    ELSE IF Len(ts) = 1 THEN ts[1]
    ELSE ts[1] \o <<",", " ">> \o Join(Tail(ts))

RECURSIVE Serialize(_)
Serialize(v) ==
    CASE v.t = "null" -> <<"n", "u", "l", "l">>
      [] v.t = "true" -> <<"t", "r", "u", "e">>
      [] v.t = "false" -> <<"f", "a", "l", "s", "e">>
      [] v.t = "num" -> NatChars(v.n)
      [] v.t = "str" -> Quote(v.s)
      [] v.t = "arr" ->
            <<"[">> \o Join([i \in 1..Len(v.kids) |-> Serialize(v.kids[i])]) \o <<"]">>
      [] v.t = "obj" ->
            <<"{">>
            \o Join([i \in 1..Len(v.k) |->
                        Quote(v.k[i]) \o <<":", " ">> \o Serialize(v.kids[i])])
            \o <<"}">>

(***************************************************************************)
(* extract_json.                                                           *)
(***************************************************************************)
NoMatch == [found |-> FALSE, group |-> <<>>]
Match(g) == [found |-> TRUE, group |-> g]

Fence == <<"BT", "BT", "BT">>
FenceJson == <<"BT", "BT", "BT", "j", "s", "o", "n">>

\* The text between the opening fence at i (open characters long) and the
\* next fence after it: the lazy group (.*?) of the two fence patterns.
FenceGroup(s, i, open) ==
    LET k == IF i = 0 THEN 0 ELSE Find(s, Fence, i + open)
    IN  IF k = 0 THEN NoMatch ELSE Match(SubSeq(s, i + open, k - 1))

\* The json fence pattern with a greedy group: up to the last fence.
SearchJsonFenceGreedy(s) ==
    LET i == Find(s, FenceJson, 1)
        k == FindLast(s, Fence)
    IN  IF i = 0 \/ k < i + Len(FenceJson) THEN NoMatch
        ELSE Match(SubSeq(s, i + Len(FenceJson), k - 1))

\* re.search of the pattern: three backticks, json, (.*?), three backticks.
SearchJsonFence(s) == FenceGroup(s, Find(s, FenceJson, 1), Len(FenceJson))

\* re.search of the pattern: three backticks, (.*?), three backticks.
SearchFence(s) == FenceGroup(s, Find(s, Fence, 1), Len(Fence))

\* The brace pattern with a lazy group: from the first "{" to the next "}".
SearchBracesLazy(s) ==
    LET i == Find(s, <<"{">>, 1)
        k == IF i = 0 THEN 0 ELSE Find(s, <<"}">>, i + 1)
    IN  IF k = 0 THEN NoMatch ELSE Match(SubSeq(s, i, k))

\* The place of the "}" that closes the brace opened before i at the given
\* depth, 0 when it is not closed.
RECURSIVE MatchingBrace(_, _, _)
MatchingBrace(s, i, depth) ==
    IF i > Len(s) THEN 0
    ELSE IF s[i] = "{" THEN MatchingBrace(s, i + 1, depth + 1)
    ELSE IF s[i] = "}"
         THEN IF depth = 1 THEN i ELSE MatchingBrace(s, i + 1, depth - 1)
    ELSE MatchingBrace(s, i + 1, depth)

\* A brace search that balances: from the first "{" to the "}" that closes it.
SearchBracesBalanced(s) ==
    LET i == Find(s, <<"{">>, 1)
        k == IF i = 0 THEN 0 ELSE MatchingBrace(s, i + 1, 1)
    IN  IF k = 0 THEN NoMatch ELSE Match(SubSeq(s, i, k))

\* re.search(r'\{.*\}', text, re.DOTALL): from the first "{" to the last "}".
SearchBraces(s) ==
    LET i == Find(s, <<"{">>, 1)
        k == FindLast(s, <<"}">>)
    IN  IF i = 0 \/ k < i THEN NoMatch ELSE Match(SubSeq(s, i, k))

\* {"raw": text}
RawWrapper(s) == JObj(<<<<"r", "a", "w">>>>, <<JStr(s)>>)

\* What a call hands back: a value, or an exception that leaves the function.
Returned(v) == [raised |-> FALSE, v |-> v]
Raised == [raised |-> TRUE, v |-> JNull]

\* A handler that lets the exception leave the function.
ExceptWrapperReraise(r, s) == IF r.ok THEN Returned(r.v) ELSE Raised

\* The handler of the function's try block: whatever is raised inside the
\* block ends the function with the raw wrapper.
ExceptWrapper(r, s) == IF r.ok THEN Returned(r.v) ELSE Returned(RawWrapper(s))

extract_json(s) ==
    LET jf == SearchJsonFence(s)
        gf == SearchFence(s)
        bs == SearchBraces(s)
    IN  IF jf.found THEN ExceptWrapper(Loads(Strip(jf.group)), s)
        ELSE IF gf.found /\ Loads(Strip(gf.group)).ok
             THEN Returned(Loads(Strip(gf.group)).v)
        ELSE IF bs.found THEN ExceptWrapper(Loads(bs.group), s)
        ELSE ExceptWrapper(Loads(Strip(s)), s)

(***************************************************************************)
(* extract_field_value.                                                    *)
(***************************************************************************)
Unknown == JStr(<<"u", "n", "k", "n", "o", "w", "n">>)

\* value and value != "unknown" and value != "Unknown"
Usable(v) == Truthy(v) /\ v # JStr(<<"u", "n", "k", "n", "o", "w", "n">>) /\ v # JStr(<<"U", "n", "k", "n", "o", "w", "n">>)

\* A scan that gives up at the first alias that is a key of the data.
RECURSIVE ScanNamesFirstKeyOnly(_, _, _)
ScanNamesFirstKeyOnly(d, names, dflt) ==
    IF names = <<>> THEN dflt
    ELSE IF HasKey(d, Head(names))
         THEN IF Usable(Get(d, Head(names))) THEN Get(d, Head(names)) ELSE dflt
    ELSE ScanNamesFirstKeyOnly(d, Tail(names), dflt)

\* The loop over possible_names.
RECURSIVE ScanNames(_, _, _)
ScanNames(d, names, dflt) ==
    IF names = <<>> THEN dflt
    ELSE IF HasKey(d, Head(names)) /\ Usable(Get(d, Head(names)))
         THEN Get(d, Head(names))
    ELSE ScanNames(d, Tail(names), dflt)

extract_field_value(d, names, dflt) ==
    IF IsDict(d) THEN ScanNames(d, names, dflt) ELSE dflt

(***************************************************************************)
(* create_beautiful_response.                                              *)
(***************************************************************************)
\* datetime.now().isoformat(): the clock is not modelled.
Now == JStr(<<"n", "o", "w">>)

\* The keys collected into technical_details, in the order of the loop.
TechnicalKeys ==
    <<<<"m", "i", "n", "t", "_", "m", "a", "r", "k">>, <<"d", "i", "a", "m", "e", "t", "e", "r", "_", "m", "m">>, <<"w", "e", "i", "g", "h", "t">>, <<"t", "h", "i", "c", "k", "n", "e", "s", "s">>, <<"e", "d", "g", "e", "_", "t", "y", "p", "e">>>>

RECURSIVE CollectKeys(_, _, _)
CollectKeys(d, keys, acc) ==
    IF keys = <<>> THEN acc
    ELSE CollectKeys(d, Tail(keys),
                     IF HasKey(d, Head(keys)) THEN Put(acc, Head(keys), Get(d, Head(keys)))
                     ELSE acc)

\* technical_details; the call is made on a dict only.
TechnicalDetails(parsed) ==
    IF HasKey(parsed, <<"o", "t", "h", "e", "r", "_", "d", "e", "t", "a", "i", "l", "s">>) /\ IsDict(Get(parsed, <<"o", "t", "h", "e", "r", "_", "d", "e", "t", "a", "i", "l", "s">>))
    THEN Get(parsed, <<"o", "t", "h", "e", "r", "_", "d", "e", "t", "a", "i", "l", "s">>)
    ELSE CollectKeys(parsed, TechnicalKeys, JObj(<<>>, <<>>))

\* The aliases of the denomination.
DenominationNames ==
    <<<<"d", "e", "n", "o", "m", "i", "n", "a", "t", "i", "o", "n">>, <<"v", "a", "l", "u", "e">>, <<"f", "a", "c", "e", "_", "v", "a", "l", "u", "e">>, <<"c", "o", "i", "n", "_", "v", "a", "l", "u", "e">>, <<"m", "o", "n", "e", "t", "a", "r", "y", "_", "v", "a", "l", "u", "e">>>>

\* Aliases of the collector value with the field's own name first.
CollectorValueNamesOwnNameFirst ==
    <<<<"c", "o", "l", "l", "e", "c", "t", "o", "r", "_", "v", "a", "l", "u", "e">>, <<"v", "a", "l", "u", "e">>, <<"m", "a", "r", "k", "e", "t", "_", "v", "a", "l", "u", "e">>, <<"e", "s", "t", "i", "m", "a", "t", "e", "d", "_", "v", "a", "l", "u", "e">>, <<"w", "o", "r", "t", "h">>>>

\* The aliases of the collector value.
CollectorValueNames ==
    <<<<"v", "a", "l", "u", "e">>, <<"c", "o", "l", "l", "e", "c", "t", "o", "r", "_", "v", "a", "l", "u", "e">>, <<"m", "a", "r", "k", "e", "t", "_", "v", "a", "l", "u", "e">>, <<"e", "s", "t", "i", "m", "a", "t", "e", "d", "_", "v", "a", "l", "u", "e">>, <<"w", "o", "r", "t", "h">>>>

\* The report, for a parsed_analysis that is a dict.
BeautifulReport(parsed, model_used, filename, image_size) ==
    JObj(<<<<"s", "u", "c", "c", "e", "s", "s">>, <<"t", "i", "m", "e", "s", "t", "a", "m", "p">>, <<"c", "o", "i", "n", "_", "a", "n", "a", "l", "y", "s", "i", "s">>, <<"m", "e", "t", "a", "d", "a", "t", "a">>>>,
         << JTrue,
            Now,
            JObj(<<<<"b", "a", "s", "i", "c", "_", "i", "n", "f", "o">>, <<"v", "a", "l", "u", "e", "_", "a", "s", "s", "e", "s", "s", "m", "e", "n", "t">>, <<"d", "e", "s", "c", "r", "i", "p", "t", "i", "o", "n">>,
                   <<"h", "i", "s", "t", "o", "r", "i", "c", "a", "l", "_", "c", "o", "n", "t", "e", "x", "t">>, <<"t", "e", "c", "h", "n", "i", "c", "a", "l", "_", "d", "e", "t", "a", "i", "l", "s">>>>,
                 << JObj(<<<<"r", "e", "l", "e", "a", "s", "e", "d", "_", "y", "e", "a", "r">>, <<"c", "o", "u", "n", "t", "r", "y">>, <<"d", "e", "n", "o", "m", "i", "n", "a", "t", "i", "o", "n">>, <<"c", "o", "m", "p", "o", "s", "i", "t", "i", "o", "n">>>>,
                         << extract_field_value(parsed,
                                <<<<"y", "e", "a", "r", " ", "f", "i", "r", "s", "t", " ", "r", "e", "l", "e", "a", "s", "e", "d">>, <<"y", "e", "a", "r">>, <<"r", "e", "l", "e", "a", "s", "e", "_", "y", "e", "a", "r">>,
                                  <<"m", "i", "n", "t", "_", "y", "e", "a", "r">>, <<"f", "i", "r", "s", "t", "_", "r", "e", "l", "e", "a", "s", "e", "d">>, <<"i", "s", "s", "u", "e", "d", "_", "y", "e", "a", "r">>>>, Unknown),
                            extract_field_value(parsed,
                                <<<<"c", "o", "u", "n", "t", "r", "y">>, <<"n", "a", "t", "i", "o", "n">>, <<"o", "r", "i", "g", "i", "n">>, <<"i", "s", "s", "u", "i", "n", "g", "_", "c", "o", "u", "n", "t", "r", "y">>>>,
                                Unknown),
                            extract_field_value(parsed, DenominationNames, Unknown),
                            extract_field_value(parsed,
                                <<<<"c", "o", "m", "p", "o", "s", "i", "t", "i", "o", "n">>, <<"m", "a", "t", "e", "r", "i", "a", "l">>, <<"m", "e", "t", "a", "l">>, <<"a", "l", "l", "o", "y">>,
                                  <<"c", "o", "m", "p", "o", "s", "i", "t", "i", "o", "n", "_", "m", "a", "t", "e", "r", "i", "a", "l">>>>, Unknown) >>),
                    JObj(<<<<"c", "o", "l", "l", "e", "c", "t", "o", "r", "_", "v", "a", "l", "u", "e">>, <<"r", "a", "r", "i", "t", "y">>>>,
                         << extract_field_value(parsed, CollectorValueNames, Unknown),
                            extract_field_value(parsed,
                                <<<<"r", "a", "r", "i", "t", "y">>, <<"s", "c", "a", "r", "c", "i", "t", "y">>, <<"a", "v", "a", "i", "l", "a", "b", "i", "l", "i", "t", "y">>, <<"r", "a", "r", "i", "t", "y", "_", "l", "e", "v", "e", "l">>>>,
                                Unknown) >>),
                    extract_field_value(parsed,
                        <<<<"d", "e", "s", "c", "r", "i", "p", "t", "i", "o", "n">>, <<"d", "e", "s", "c", "r", "i", "p", "t", "i", "o", "n", "_", "t", "e", "x", "t">>, <<"c", "o", "i", "n", "_", "d", "e", "s", "c", "r", "i", "p", "t", "i", "o", "n">>,
                          <<"d", "e", "t", "a", "i", "l", "s">>>>, JStr(<<"N", "o", " ", "d", "e", "s", "c", "r", "i", "p", "t", "i", "o", "n", " ", "a", "v", "a", "i", "l", "a", "b", "l", "e">>)),
                    extract_field_value(parsed,
                        <<<<"h", "i", "s", "t", "o", "r", "i", "c", "a", "l", "_", "c", "o", "n", "t", "e", "x", "t">>, <<"h", "i", "s", "t", "o", "r", "y">>, <<"h", "i", "s", "t", "o", "r", "i", "c", "a", "l", "_", "b", "a", "c", "k", "g", "r", "o", "u", "n", "d">>,
                          <<"c", "o", "n", "t", "e", "x", "t">>>>, JStr(<<"N", "o", " ", "h", "i", "s", "t", "o", "r", "i", "c", "a", "l", " ", "c", "o", "n", "t", "e", "x", "t", " ", "a", "v", "a", "i", "l", "a", "b", "l", "e">>)),
                    TechnicalDetails(parsed) >>),
            JObj(<<<<"m", "o", "d", "e", "l", "_", "u", "s", "e", "d">>, <<"i", "m", "a", "g", "e", "_", "f", "i", "l", "e", "n", "a", "m", "e">>, <<"i", "m", "a", "g", "e", "_", "s", "i", "z", "e", "_", "b", "y", "t", "e", "s">>,
                   <<"p", "r", "o", "c", "e", "s", "s", "i", "n", "g", "_", "t", "i", "m", "e">>>>,
                 <<model_used, filename, image_size, Now>>) >>)

\* parsed_analysis.get("other_details") raises AttributeError when
\* parsed_analysis is not a dict, after the fields have been resolved.
create_beautiful_response(parsed, model_used, filename, image_size) ==
    IF IsDict(parsed)
    THEN Returned(BeautifulReport(parsed, model_used, filename, image_size))
    ELSE Raised

\* v[path[1]][path[2]]...
RECURSIVE GetPath(_, _)
GetPath(v, path) ==
    IF path = <<>> THEN v ELSE GetPath(Get(v, Head(path)), Tail(path))

\* v[path[1]][path[2]]... = x
RECURSIVE PutPath(_, _, _)
PutPath(v, path, x) ==
    IF Len(path) = 1 THEN Put(v, path[1], x)
    ELSE Put(v, Head(path), PutPath(Get(v, Head(path)), Tail(path), x))

BasicInfo(field) == <<<<"c", "o", "i", "n", "_", "a", "n", "a", "l", "y", "s", "i", "s">>, <<"b", "a", "s", "i", "c", "_", "i", "n", "f", "o">>, field>>

(***************************************************************************)
(* enhance_with_text_analysis.                                             *)
(***************************************************************************)
UpperCase == <<"A", "B", "C", "D", "E", "F", "G", "H", "I", "J", "K", "L", "M", "N", "O", "P", "Q", "R", "S", "T", "U", "V", "W", "X", "Y", "Z">>
LowerCase == <<"a", "b", "c", "d", "e", "f", "g", "h", "i", "j", "k", "l", "m", "n", "o", "p", "q", "r", "s", "t", "u", "v", "w", "x", "y", "z">>

IsLetter(c) == \E i \in 1..26 : UpperCase[i] = c \/ LowerCase[i] = c

LowerChar(c) ==
    IF \E i \in 1..26 : UpperCase[i] = c
    THEN LowerCase[CHOOSE i \in 1..26 : UpperCase[i] = c] ELSE c

UpperChar(c) ==
    IF \E i \in 1..26 : LowerCase[i] = c
    THEN UpperCase[CHOOSE i \in 1..26 : LowerCase[i] = c] ELSE c

\* str.lower()
Lower(s) == [i \in 1..Len(s) |-> LowerChar(s[i])]

\* str.title(): a letter that follows no letter is put in upper case, every
\* other letter in lower case.
Title(s) ==
    [i \in 1..Len(s) |->
        IF i = 1 \/ ~IsLetter(s[i - 1]) THEN UpperChar(s[i]) ELSE LowerChar(s[i])]

\* country_patterns of the source, in its order.
country_patterns ==
    << [name |-> <<"f", "r", "a", "n", "c", "e">>,
        patterns |-> <<<<"f", "r", "a", "n", "c", "e">>, <<"f", "r", "e", "n", "c", "h">>, <<"r", "e", "p", "u", "b", "l", "i", "q", "u", "e", " ", "f", "r", "a", "n", "c", "a", "i", "s", "e">>, <<"r", "e_acute", "p", "u", "b", "l", "i", "q", "u", "e", " ", "f", "r", "a", "n", "c_cedilla", "a", "i", "s", "e">>>>],
       [name |-> <<"u", "s", "a">>,
        patterns |-> <<<<"u", "n", "i", "t", "e", "d", " ", "s", "t", "a", "t", "e", "s">>, <<"u", "s", "a">>, <<"u", "s">>, <<"a", "m", "e", "r", "i", "c", "a", "n">>>>],
       [name |-> <<"u", "k">>,
        patterns |-> <<<<"u", "n", "i", "t", "e", "d", " ", "k", "i", "n", "g", "d", "o", "m">>, <<"u", "k">>, <<"b", "r", "i", "t", "a", "i", "n">>, <<"b", "r", "i", "t", "i", "s", "h">>, <<"e", "n", "g", "l", "a", "n", "d">>>>],
       [name |-> <<"g", "e", "r", "m", "a", "n", "y">>,
        patterns |-> <<<<"g", "e", "r", "m", "a", "n", "y">>, <<"g", "e", "r", "m", "a", "n">>, <<"d", "e", "u", "t", "s", "c", "h", "l", "a", "n", "d">>>>],
       [name |-> <<"i", "t", "a", "l", "y">>,
        patterns |-> <<<<"i", "t", "a", "l", "y">>, <<"i", "t", "a", "l", "i", "a", "n">>, <<"i", "t", "a", "l", "i", "a">>>>],
       [name |-> <<"s", "p", "a", "i", "n">>,
        patterns |-> <<<<"s", "p", "a", "i", "n">>, <<"s", "p", "a", "n", "i", "s", "h">>, <<"e", "s", "p", "a", "n_tilde", "a">>>>],
       [name |-> <<"c", "a", "n", "a", "d", "a">>,
        patterns |-> <<<<"c", "a", "n", "a", "d", "a">>, <<"c", "a", "n", "a", "d", "i", "a", "n">>>>],
       [name |-> <<"a", "u", "s", "t", "r", "a", "l", "i", "a">>,
        patterns |-> <<<<"a", "u", "s", "t", "r", "a", "l", "i", "a">>, <<"a", "u", "s", "t", "r", "a", "l", "i", "a", "n">>>>],
       [name |-> <<"j", "a", "p", "a", "n">>,
        patterns |-> <<<<"j", "a", "p", "a", "n">>, <<"j", "a", "p", "a", "n", "e", "s", "e">>, <<"n", "i", "h", "o", "n">>>>],
       [name |-> <<"c", "h", "i", "n", "a">>,
        patterns |-> <<<<"c", "h", "i", "n", "a">>, <<"c", "h", "i", "n", "e", "s", "e">>, <<"z", "h", "o", "n", "g", "g", "u", "o">>>>] >>

\* denomination_patterns of the source, in its order.
denomination_patterns ==
    << [name |-> <<"1", " ", "c", "e", "n", "t">>,
        patterns |-> <<<<"1", " ", "c", "e", "n", "t">>, <<"o", "n", "e", " ", "c", "e", "n", "t">>, <<"p", "e", "n", "n", "y">>>>],
       [name |-> <<"5", " ", "c", "e", "n", "t", "s">>,
        patterns |-> <<<<"5", " ", "c", "e", "n", "t", "s">>, <<"f", "i", "v", "e", " ", "c", "e", "n", "t", "s">>, <<"n", "i", "c", "k", "e", "l">>>>],
       [name |-> <<"1", "0", " ", "c", "e", "n", "t", "s">>,
        patterns |-> <<<<"1", "0", " ", "c", "e", "n", "t", "s">>, <<"t", "e", "n", " ", "c", "e", "n", "t", "s">>, <<"d", "i", "m", "e">>>>],
       [name |-> <<"2", "5", " ", "c", "e", "n", "t", "s">>,
        patterns |-> <<<<"2", "5", " ", "c", "e", "n", "t", "s">>, <<"q", "u", "a", "r", "t", "e", "r">>, <<"t", "w", "e", "n", "t", "y", "-", "f", "i", "v", "e", " ", "c", "e", "n", "t", "s">>>>],
       [name |-> <<"5", "0", " ", "c", "e", "n", "t", "s">>,
        patterns |-> <<<<"5", "0", " ", "c", "e", "n", "t", "s">>, <<"h", "a", "l", "f", " ", "d", "o", "l", "l", "a", "r">>, <<"f", "i", "f", "t", "y", " ", "c", "e", "n", "t", "s">>>>],
       [name |-> <<"1", " ", "d", "o", "l", "l", "a", "r">>,
        patterns |-> <<<<"1", " ", "d", "o", "l", "l", "a", "r">>, <<"o", "n", "e", " ", "d", "o", "l", "l", "a", "r">>, <<"d", "o", "l", "l", "a", "r", " ", "c", "o", "i", "n">>>>],
       [name |-> <<"1", " ", "e", "u", "r", "o">>,
        patterns |-> <<<<"1", " ", "e", "u", "r", "o">>, <<"o", "n", "e", " ", "e", "u", "r", "o">>>>],
       [name |-> <<"2", " ", "e", "u", "r", "o", "s">>,
        patterns |-> <<<<"2", " ", "e", "u", "r", "o", "s">>, <<"t", "w", "o", " ", "e", "u", "r", "o", "s">>>>],
       [name |-> <<"5", " ", "e", "u", "r", "o", "s">>,
        patterns |-> <<<<"5", " ", "e", "u", "r", "o", "s">>, <<"f", "i", "v", "e", " ", "e", "u", "r", "o", "s">>>>],
       [name |-> <<"1", "0", " ", "e", "u", "r", "o", "s">>,
        patterns |-> <<<<"1", "0", " ", "e", "u", "r", "o", "s">>, <<"t", "e", "n", " ", "e", "u", "r", "o", "s">>>>],
       [name |-> <<"2", "0", " ", "e", "u", "r", "o", "s">>,
        patterns |-> <<<<"2", "0", " ", "e", "u", "r", "o", "s">>, <<"t", "w", "e", "n", "t", "y", " ", "e", "u", "r", "o", "s">>>>],
       [name |-> <<"5", "0", " ", "e", "u", "r", "o", "s">>,
        patterns |-> <<<<"5", "0", " ", "e", "u", "r", "o", "s">>, <<"f", "i", "f", "t", "y", " ", "e", "u", "r", "o", "s">>>>],
       [name |-> <<"1", " ", "p", "o", "u", "n", "d">>,
        patterns |-> <<<<"1", " ", "p", "o", "u", "n", "d">>, <<"o", "n", "e", " ", "p", "o", "u", "n", "d">>, <<"p", "o", "u", "n", "d", " ", "s", "t", "e", "r", "l", "i", "n", "g">>>>],
       [name |-> <<"2", " ", "p", "o", "u", "n", "d", "s">>,
        patterns |-> <<<<"2", " ", "p", "o", "u", "n", "d", "s">>, <<"t", "w", "o", " ", "p", "o", "u", "n", "d", "s">>>>],
       [name |-> <<"1", " ", "y", "e", "n">>,
        patterns |-> <<<<"1", " ", "y", "e", "n">>, <<"o", "n", "e", " ", "y", "e", "n">>>>],
       [name |-> <<"5", " ", "y", "e", "n">>,
        patterns |-> <<<<"5", " ", "y", "e", "n">>, <<"f", "i", "v", "e", " ", "y", "e", "n">>>>],
       [name |-> <<"1", "0", " ", "y", "e", "n">>,
        patterns |-> <<<<"1", "0", " ", "y", "e", "n">>, <<"t", "e", "n", " ", "y", "e", "n">>>>],
       [name |-> <<"5", "0", " ", "y", "e", "n">>,
        patterns |-> <<<<"5", "0", " ", "y", "e", "n">>, <<"f", "i", "f", "t", "y", " ", "y", "e", "n">>>>],
       [name |-> <<"1", "0", "0", " ", "y", "e", "n">>,
        patterns |-> <<<<"1", "0", "0", " ", "y", "e", "n">>, <<"h", "u", "n", "d", "r", "e", "d", " ", "y", "e", "n">>>>] >>

\* composition_patterns of the source, in its order.
composition_patterns ==
    << [name |-> <<"c", "o", "p", "p", "e", "r">>,
        patterns |-> <<<<"c", "o", "p", "p", "e", "r">>, <<"c", "u">>>>],
       [name |-> <<"b", "r", "o", "n", "z", "e">>,
        patterns |-> <<<<"b", "r", "o", "n", "z", "e">>>>],
       [name |-> <<"b", "r", "a", "s", "s">>,
        patterns |-> <<<<"b", "r", "a", "s", "s">>>>],
       [name |-> <<"s", "i", "l", "v", "e", "r">>,
        patterns |-> <<<<"s", "i", "l", "v", "e", "r">>, <<"a", "g">>>>],
       [name |-> <<"g", "o", "l", "d">>,
        patterns |-> <<<<"g", "o", "l", "d">>, <<"a", "u">>>>],
       [name |-> <<"n", "i", "c", "k", "e", "l">>,
        patterns |-> <<<<"n", "i", "c", "k", "e", "l">>, <<"n", "i">>>>],
       [name |-> <<"z", "i", "n", "c">>,
        patterns |-> <<<<"z", "i", "n", "c">>, <<"z", "n">>>>],
       [name |-> <<"a", "l", "u", "m", "i", "n", "u", "m">>,
        patterns |-> <<<<"a", "l", "u", "m", "i", "n", "u", "m">>, <<"a", "l", "u", "m", "i", "n", "i", "u", "m">>, <<"a", "l">>>>],
       [name |-> <<"s", "t", "e", "e", "l">>,
        patterns |-> <<<<"s", "t", "e", "e", "l">>, <<"i", "r", "o", "n">>>>] >>

\* any(pattern in text_lower for pattern in patterns)
AnyPatternIn(patterns, text_lower) ==
    \E i \in 1..Len(patterns) : Contains(text_lower, patterns[i])

\* The name of the last entry of the table with a pattern in the text.
RECURSIVE LastMatch(_, _)
LastMatch(table, text_lower) ==
    IF table = <<>> THEN <<>>
    ELSE IF LastMatch(Tail(table), text_lower) # <<>>
         THEN LastMatch(Tail(table), text_lower)
    ELSE IF AnyPatternIn(Head(table).patterns, text_lower) THEN Head(table).name
    ELSE <<>>

\* The loop with break: the name of the first entry of the table with a
\* pattern in the text, <<>> when the loop ends without a match.
RECURSIVE FirstMatch(_, _)
FirstMatch(table, text_lower) ==
    IF table = <<>> THEN <<>>
    ELSE IF AnyPatternIn(Head(table).patterns, text_lower) THEN Head(table).name
    ELSE FirstMatch(Tail(table), text_lower)

\* A scan that stops at its first match, as the other two tables' scans do.
AllMatchesFirstOnly(table, text_lower) ==
    IF FirstMatch(table, text_lower) = <<>> THEN <<>>
    ELSE <<FirstMatch(table, text_lower)>>

\* found_compositions: the names of all entries with a pattern in the text.
RECURSIVE AllMatches(_, _)
AllMatches(table, text_lower) ==
    IF table = <<>> THEN <<>>
    ELSE (IF AnyPatternIn(Head(table).patterns, text_lower)
          THEN <<Head(table).name>> ELSE <<>>)
         \o AllMatches(Tail(table), text_lower)

SetCountry(resp, text_lower) ==
    IF FirstMatch(country_patterns, text_lower) = <<>> THEN resp
    ELSE PutPath(resp, BasicInfo(<<"c", "o", "u", "n", "t", "r", "y">>),
                 JStr(Title(FirstMatch(country_patterns, text_lower))))

SetDenomination(resp, text_lower) ==
    IF FirstMatch(denomination_patterns, text_lower) = <<>> THEN resp
    ELSE PutPath(resp, BasicInfo(<<"d", "e", "n", "o", "m", "i", "n", "a", "t", "i", "o", "n">>),
                 JStr(FirstMatch(denomination_patterns, text_lower)))

SetComposition(resp, text_lower) ==
    IF AllMatches(composition_patterns, text_lower) = <<>> THEN resp
    ELSE PutPath(resp, BasicInfo(<<"c", "o", "m", "p", "o", "s", "i", "t", "i", "o", "n">>),
                 JStr(Join(AllMatches(composition_patterns, text_lower))))

enhance_with_text_analysis(raw, resp) ==
    LET text_lower == Lower(raw)
    IN  SetComposition(SetDenomination(SetCountry(resp, text_lower), text_lower),
                       text_lower)

(***************************************************************************)
(* State.  Each specification below runs one part of the program and       *)
(* leaves the variables of the other parts at rest.                        *)
(***************************************************************************)
nvars == <<text, result, text2, result2, npc>>
rvars == <<data, possible_names, default, value, rpc>>
evars == <<raw_text, response, epc>>
cvars == <<AZURE_OPENAI_API_KEY, AZURE_OPENAI_ENDPOINT>>
hvars == <<content_type, pc, calls, upstream, raw_analysis, beautiful_response, enhanced,
           branch, status_code, content>>

bvars == <<parsed_analysis, built, bpc>>

vars == <<nvars, rvars, evars, cvars, hvars, bvars>>

NormAtRest ==
    /\ text = <<>>
    /\ result = Returned(JNull)
    /\ text2 = <<>>
    /\ result2 = Returned(JNull)
    /\ npc = "rest"

ResolveAtRest ==
    /\ data = JNull
    /\ possible_names = <<>>
    /\ default = Unknown
    /\ value = JNull
    /\ rpc = "rest"

EnhanceAtRest ==
    /\ raw_text = <<>>
    /\ response = JNull
    /\ epc = "rest"

BuildAtRest ==
    /\ parsed_analysis = JNull
    /\ built = Returned(JNull)
    /\ bpc = "rest"

\* None, as the value of an unset setting or of an undeclared media type.
None == <<"None">>

RequestAtRest ==
    /\ AZURE_OPENAI_API_KEY = None
    /\ AZURE_OPENAI_ENDPOINT = None
    /\ content_type = None
    /\ pc = "rest"
    /\ calls = 0
    /\ upstream = "none"
    /\ raw_analysis = <<>>
    /\ beautiful_response = JNull
    /\ enhanced = FALSE
    /\ branch = "none"
    /\ status_code = 0
    /\ content = JNull

(***************************************************************************)
(* The normalizer on its own: a text is drawn, normalized, serialized and  *)
(* normalized again.                                                       *)
(***************************************************************************)
\* What the input texts of the normalizer are made of.
Pieces ==
    { <<"BT", "BT", "BT", "j", "s", "o", "n">>, <<"BT", "BT", "BT">>, <<"{">>, <<"}">>, <<"[", "{", "}", "]">>,
      <<"1">>, <<" ">>, <<"x">>, <<"\"">> }

PieceSeqs == UNION {[1..n -> Pieces] : n \in 0..MaxPieces}

\* The example text of the specification's testable properties.
NoJsonHere == <<"n", "o", " ", "j", "s", "o", "n", " ", "h", "e", "r", "e">>

NormTexts == {Concat(ps) : ps \in PieceSeqs} \cup {NoJsonHere}

NormInit ==
    /\ text \in NormTexts
    /\ result = Returned(JNull)
    /\ text2 = <<>>
    /\ result2 = Returned(JNull)
    /\ npc = "start"
    /\ ResolveAtRest
    /\ EnhanceAtRest
    /\ RequestAtRest
    /\ BuildAtRest

Normalize ==
    /\ npc = "start"
    /\ result' = extract_json(text)
    /\ npc' = IF result'.raised THEN "raised" ELSE "normalized"
    /\ UNCHANGED <<bvars, text, text2, result2, rvars, evars, cvars, hvars>>

Reserialize ==
    /\ npc = "normalized"
    /\ text2' = Serialize(result.v)
    /\ npc' = "serialized"
    /\ UNCHANGED <<bvars, text, result, result2, rvars, evars, cvars, hvars>>

Renormalize ==
    /\ npc = "serialized"
    /\ result2' = extract_json(text2)
    /\ npc' = "done"
    /\ UNCHANGED <<bvars, text, result, text2, rvars, evars, cvars, hvars>>

NormNext == Normalize \/ Reserialize \/ Renormalize

SpecNorm == NormInit /\ [][NormNext]_vars

(***************************************************************************)
(* The field resolver on its own.                                          *)
(***************************************************************************)
\* The keys the data may hold: aliases of the year.
ResolveKeys == <<<<"y", "e", "a", "r", " ", "f", "i", "r", "s", "t", " ", "r", "e", "l", "e", "a", "s", "e", "d">>, <<"y", "e", "a", "r">>, <<"r", "e", "l", "e", "a", "s", "e", "_", "y", "e", "a", "r">>>>

\* The values a key may hold.
ResolveValues ==
    { JStr(<<"1", "9", "7", "5">>), JStr(<<"u", "n", "k", "n", "o", "w", "n">>), JStr(<<"U", "n", "k", "n", "o", "w", "n">>), JStr(<<>>),
      JNum(0), JNum(1975), JNull, JFalse, JArr(<<>>) }

\* The objects over the keys: each key absent or holding one of the values.
ResolveObjects ==
    LET Slot == ResolveValues \cup {JV("absent", 0, <<>>, <<>>, <<>>)}
        present(f) == {i \in 1..Len(ResolveKeys) : f[i].t # "absent"}
        RECURSIVE build(_, _, _)
        build(f, i, acc) ==
            IF i > Len(ResolveKeys) THEN acc
            ELSE build(f, i + 1,
                       IF f[i].t = "absent" THEN acc ELSE Put(acc, ResolveKeys[i], f[i]))
    IN  {build(f, 1, JObj(<<>>, <<>>)) : f \in [1..Len(ResolveKeys) -> Slot]}

ResolveData ==
    ResolveObjects \cup {JStr(<<"n", "o", "t", " ", "a", "n", " ", "o", "b", "j", "e", "c", "t">>), JArr(<<JStr(<<"y", "e", "a", "r">>)>>), JNum(1975), JNull}

AliasLists ==
    UNION {[1..n -> {ResolveKeys[i] : i \in 1..Len(ResolveKeys)}] : n \in 0..MaxAliases}

ResolveInit ==
    /\ data \in ResolveData
    /\ possible_names \in AliasLists
    /\ default \in {Unknown, JStr(<<"N", "o", " ", "d", "e", "s", "c", "r", "i", "p", "t", "i", "o", "n", " ", "a", "v", "a", "i", "l", "a", "b", "l", "e">>)}
    /\ value = JNull
    /\ rpc = "start"
    /\ NormAtRest
    /\ EnhanceAtRest
    /\ RequestAtRest
    /\ BuildAtRest

Resolve ==
    /\ rpc = "start"
    /\ value' = extract_field_value(data, possible_names, default)
    /\ rpc' = "done"
    /\ UNCHANGED <<bvars, data, possible_names, default, nvars, evars, cvars, hvars>>

ResolveNext == Resolve

SpecResolve == ResolveInit /\ [][ResolveNext]_vars

(***************************************************************************)
(* The text-pattern fallback on its own: it is handed a completion and a   *)
(* report whose country and denomination are both "unknown".               *)
(***************************************************************************)
\* The phrases a completion is made of.
Phrases ==
    { <<"T", "h", "i", "s", " ", "i", "s", " ", "a", " ">>, <<"F", "r", "e", "n", "c", "h", " ", "R", "e", "p", "u", "b", "l", "i", "c", " ", "c", "o", "i", "n", ",", " ">>, <<"1", " ", "e", "u", "r", "o">>, <<"A", "u", "s", "t", "r", "a", "l", "i", "a", " ">>,
      <<"z", "i", "n", "c", " ">>, <<"c", "o", "p", "p", "e", "r", " ">>, <<"n", "i", "c", "k", "e", "l", " ">>, <<"p", "e", "n", "n", "y", " ">>, <<"G", "E", "R", "M", "A", "N", " ">>, <<"G", "o", "l", "d", " ">> }

\* The example text of the specification's testable properties.
FrenchEuro == <<"T", "h", "i", "s", " ", "i", "s", " ", "a", " ", "F", "r", "e", "n", "c", "h", " ", "R", "e", "p", "u", "b", "l", "i", "c", " ", "c", "o", "i", "n", ",", " ", "1", " ", "e", "u", "r", "o">>

EnhanceTexts == {Concat(ps) : ps \in UNION {[1..n -> Phrases] : n \in 0..MaxPhrases}}

DeploymentName == JStr(<<"g", "p", "t", "-", "4", "o">>)

\* The reports the handler builds before it calls the fallback: country and
\* denomination unresolved, the composition resolved or not.
EnhanceReports ==
    { create_beautiful_response(parsed, DeploymentName, JStr(<<"c", "o", "i", "n", ".", "j", "p", "g">>), JNum(3)).v :
        parsed \in { JObj(<<>>, <<>>),
                     JObj(<<<<"c", "o", "m", "p", "o", "s", "i", "t", "i", "o", "n">>>>, <<JStr(<<"b", "r", "o", "n", "z", "e">>)>>),
                     JObj(<<<<"r", "a", "w">>>>, <<JStr(<<"a", " ", "c", "o", "i", "n">>)>>) } }

EnhanceInit ==
    /\ raw_text \in EnhanceTexts
    /\ response \in EnhanceReports
    /\ epc = "start"
    /\ NormAtRest
    /\ ResolveAtRest
    /\ RequestAtRest
    /\ BuildAtRest

Enhance ==
    /\ epc = "start"
    /\ response' = enhance_with_text_analysis(raw_text, response)
    /\ epc' = "done"
    /\ UNCHANGED <<bvars, raw_text, nvars, rvars, cvars, hvars>>

EnhanceNext == Enhance

SpecEnhance == EnhanceInit /\ [][EnhanceNext]_vars

(***************************************************************************)
(* analyze_coin.                                                           *)
(***************************************************************************)
\* A test that takes only None for a missing setting.
NotNoneOnly(x) == x = None

\* not x, for a string or None
Not(x) == x = None \/ x = <<>>

\* A media type test that accepts "image/" anywhere in the string.
IsImageAnywhere(ct) == Contains(ct, <<"i", "m", "a", "g", "e", "/">>)

\* image.content_type.startswith("image/")
IsImage(ct) == StartsWith(ct, <<"i", "m", "a", "g", "e", "/">>)

\* image.filename and len(image_data) of the upload.
Filename == JStr(<<"c", "o", "i", "n", ".", "j", "p", "g">>)
ImageSize == JNum(3)

\* What the handler answers with: a status and the content of the response,
\* together with the report built before the fallback (JNull when none was
\* built), whether the fallback ran, and the branch that ended the request.
Answer(st, body, report, enh, br) ==
    [status_code |-> st, content |-> body, beautiful_response |-> report,
     enhanced |-> enh, branch |-> br]

\* raise HTTPException(status_code=st, ...)
Error(st, br) == Answer(st, JNull, JNull, FALSE, br)

\* The first branch: the completion is the whole report.  The item
\* assignments raise KeyError without a "metadata" key and TypeError when
\* its value is no dict; both end in the handler's except Exception.
TrustedAnswer(parsed) ==
    IF ~HasKey(parsed, <<"m", "e", "t", "a", "d", "a", "t", "a">>) \/ ~IsDict(Get(parsed, <<"m", "e", "t", "a", "d", "a", "t", "a">>))
    THEN Error(500, "internal_error")
    ELSE Answer(200,
                Put(PutPath(PutPath(PutPath(PutPath(parsed,
                        <<<<"m", "e", "t", "a", "d", "a", "t", "a">>, <<"m", "o", "d", "e", "l", "_", "u", "s", "e", "d">>>>, DeploymentName),
                        <<<<"m", "e", "t", "a", "d", "a", "t", "a">>, <<"i", "m", "a", "g", "e", "_", "f", "i", "l", "e", "n", "a", "m", "e">>>>, Filename),
                        <<<<"m", "e", "t", "a", "d", "a", "t", "a">>, <<"i", "m", "a", "g", "e", "_", "s", "i", "z", "e", "_", "b", "y", "t", "e", "s">>>>, ImageSize),
                        <<<<"m", "e", "t", "a", "d", "a", "t", "a">>, <<"p", "r", "o", "c", "e", "s", "s", "i", "n", "g", "_", "t", "i", "m", "e">>>>, Now),
                    <<"t", "i", "m", "e", "s", "t", "a", "m", "p">>, Now),
                JNull, FALSE, "trusted")

\* basic_info.country == "unknown" and basic_info.denomination == "unknown"
MostlyUnknown(report) ==
    /\ GetPath(report, BasicInfo(<<"c", "o", "u", "n", "t", "r", "y">>)) = Unknown
    /\ GetPath(report, BasicInfo(<<"d", "e", "n", "o", "m", "i", "n", "a", "t", "i", "o", "n">>)) = Unknown

\* The try branch: json.loads(raw_analysis) gave parsed.
DirectAnswer(raw, parsed) ==
    IF IsDict(parsed) /\ HasKey(parsed, <<"c", "o", "i", "n", "_", "a", "n", "a", "l", "y", "s", "i", "s">>) THEN TrustedAnswer(parsed)
    ELSE LET made == create_beautiful_response(parsed, DeploymentName, Filename, ImageSize)
         IN  IF made.raised THEN Error(500, "internal_error")
             ELSE IF MostlyUnknown(made.v)
                  THEN Answer(200, enhance_with_text_analysis(raw, made.v), made.v,
                              TRUE, "direct")
             ELSE Answer(200, made.v, made.v, FALSE, "direct")

\* The except json.JSONDecodeError branch.
SalvagedAnswer(raw) ==
    LET parsed == extract_json(raw)
        made == create_beautiful_response(parsed.v, DeploymentName, Filename, ImageSize)
    IN  IF parsed.raised \/ made.raised THEN Error(500, "internal_error")
        ELSE Answer(200, made.v, made.v, FALSE, "salvaged")

\* What the handler does with the first choice's message content.
CompletionAnswer(raw) ==
    IF Loads(raw).ok THEN DirectAnswer(raw, Loads(raw).v) ELSE SalvagedAnswer(raw)

(***************************************************************************)
(* The requests.                                                           *)
(***************************************************************************)
\* The media types an upload declares; None when it declares none.
ContentTypes ==
    { <<"i", "m", "a", "g", "e", "/", "j", "p", "e", "g">>, <<"i", "m", "a", "g", "e", "/", "p", "n", "g">>, <<"t", "e", "x", "t", "/", "p", "l", "a", "i", "n">>, <<"a", "p", "p", "l", "i", "c", "a", "t", "i", "o", "n", "/", "i", "m", "a", "g", "e", "/", "p", "n", "g">>,
      <<"I", "M", "A", "G", "E", "/", "P", "N", "G">>, <<"i", "m", "a", "g", "e">>, <<>>, None }

Settings == { None, <<>>, <<"s", "e", "t">> }

\* The JSON values the remote model answers with.
FullReport ==
    JObj(<<<<"s", "u", "c", "c", "e", "s", "s">>, <<"t", "i", "m", "e", "s", "t", "a", "m", "p">>, <<"c", "o", "i", "n", "_", "a", "n", "a", "l", "y", "s", "i", "s">>, <<"m", "e", "t", "a", "d", "a", "t", "a">>, <<"n", "o", "t", "e">>>>,
         << JTrue, JStr(<<"t", "h", "e", "n">>),
            JObj(<<<<"b", "a", "s", "i", "c", "_", "i", "n", "f", "o">>, <<"v", "a", "l", "u", "e", "_", "a", "s", "s", "e", "s", "s", "m", "e", "n", "t">>, <<"d", "e", "s", "c", "r", "i", "p", "t", "i", "o", "n">>,
                   <<"h", "i", "s", "t", "o", "r", "i", "c", "a", "l", "_", "c", "o", "n", "t", "e", "x", "t">>, <<"t", "e", "c", "h", "n", "i", "c", "a", "l", "_", "d", "e", "t", "a", "i", "l", "s">>>>,
                 << JObj(<<<<"r", "e", "l", "e", "a", "s", "e", "d", "_", "y", "e", "a", "r">>, <<"c", "o", "u", "n", "t", "r", "y">>, <<"d", "e", "n", "o", "m", "i", "n", "a", "t", "i", "o", "n">>, <<"c", "o", "m", "p", "o", "s", "i", "t", "i", "o", "n">>>>,
                         <<JStr(<<"1", "9", "7", "5">>), JStr(<<"F", "r", "a", "n", "c", "e">>), JStr(<<"1", " ", "f", "r", "a", "n", "c">>), Unknown>>),
                    JObj(<<<<"c", "o", "l", "l", "e", "c", "t", "o", "r", "_", "v", "a", "l", "u", "e">>, <<"r", "a", "r", "i", "t", "y">>>>, <<Unknown, JStr(<<"c", "o", "m", "m", "o", "n">>)>>),
                    JStr(<<"A", " ", "c", "o", "i", "n">>), JStr(<<"F", "i", "f", "t", "h", " ", "R", "e", "p", "u", "b", "l", "i", "c">>),
                    JObj(<<<<"m", "i", "n", "t", "_", "m", "a", "r", "k">>>>, <<Unknown>>) >>),
            JObj(<<<<"m", "o", "d", "e", "l", "_", "u", "s", "e", "d">>, <<"i", "m", "a", "g", "e", "_", "f", "i", "l", "e", "n", "a", "m", "e">>, <<"i", "m", "a", "g", "e", "_", "s", "i", "z", "e", "_", "b", "y", "t", "e", "s">>,
                   <<"p", "r", "o", "c", "e", "s", "s", "i", "n", "g", "_", "t", "i", "m", "e">>, <<"t", "o", "k", "e", "n", "s">>>>,
                 <<JStr(<<"m", "o", "d", "e", "l">>), JStr(<<"f", "i", "l", "e">>), JStr(<<"s", "i", "z", "e">>), JStr(<<"t", "h", "e", "n">>), JNum(7)>>),
            JStr(<<"k", "e", "p", "t">>) >>)

ModelValues ==
    { JObj(<<<<"c", "o", "u", "n", "t", "r", "y">>, <<"d", "e", "n", "o", "m", "i", "n", "a", "t", "i", "o", "n">>, <<"y", "e", "a", "r">>, <<"w", "e", "i", "g", "h", "t">>>>,
           <<JStr(<<"F", "r", "a", "n", "c", "e">>), JStr(<<"1", " ", "e", "u", "r", "o">>), JStr(<<"1", "9", "9", "9">>), JNum(7)>>),
      JObj(<<<<"d", "e", "s", "c", "r", "i", "p", "t", "i", "o", "n">>>>, <<JStr(<<"A", " ", "F", "r", "e", "n", "c", "h", " ", "R", "e", "p", "u", "b", "l", "i", "c", " ", "c", "o", "i", "n", ",", " ", "1", " ", "e", "u", "r", "o", ",", " ", "o", "f", " ", "n", "i", "c", "k", "e", "l">>)>>),
      JObj(<<<<"c", "o", "u", "n", "t", "r", "y">>, <<"d", "e", "n", "o", "m", "i", "n", "a", "t", "i", "o", "n">>, <<"c", "o", "m", "p", "o", "s", "i", "t", "i", "o", "n">>>>,
           <<Unknown, JStr(<<"U", "n", "k", "n", "o", "w", "n">>), JStr(<<"b", "r", "o", "n", "z", "e">>)>>),
      JObj(<<<<"n", "a", "t", "i", "o", "n">>, <<"v", "a", "l", "u", "e">>>>, <<JStr(<<"J", "a", "p", "a", "n">>), Unknown>>),
      JObj(<<<<"v", "a", "l", "u", "e">>, <<"o", "t", "h", "e", "r", "_", "d", "e", "t", "a", "i", "l", "s">>>>,
           <<JStr(<<"5", " ", "y", "e", "n">>), JObj(<<<<"e", "d", "g", "e", "_", "t", "y", "p", "e">>>>, <<JStr(<<"p", "l", "a", "i", "n">>)>>)>>),
      JObj(<<>>, <<>>),
      FullReport,
      JObj(<<<<"c", "o", "i", "n", "_", "a", "n", "a", "l", "y", "s", "i", "s">>>>, <<JObj(<<>>, <<>>)>>),
      JObj(<<<<"c", "o", "i", "n", "_", "a", "n", "a", "l", "y", "s", "i", "s">>, <<"m", "e", "t", "a", "d", "a", "t", "a">>>>, <<JObj(<<>>, <<>>), JStr(<<"n", "o", "n", "e">>)>>),
      JObj(<<<<"c", "o", "i", "n", "_", "a", "n", "a", "l", "y", "s", "i", "s">>, <<"m", "e", "t", "a", "d", "a", "t", "a">>>>, <<JStr(<<"a", " ", "p", "e", "n", "n", "y">>), JObj(<<>>, <<>>)>>),
      JArr(<<JNum(1), JObj(<<<<"c", "o", "u", "n", "t", "r", "y">>>>, <<JStr(<<"F", "r", "a", "n", "c", "e">>)>>)>>),
      JNum(42),
      JStr(<<"a", " ", "q", "u", "a", "r", "t", "e", "r", " ", "d", "o", "l", "l", "a", "r", " ", "o", "f", " ", "t", "h", "e", " ", "U", "n", "i", "t", "e", "d", " ", "S", "t", "a", "t", "e", "s">>),
      JNull }

\* The ways the remote model wraps a JSON text.
Wrapped(w, js) ==
    CASE w = "bare" -> js
      [] w = "json_fence" -> <<"H", "e", "r", "e", " ", "i", "s", " ", "t", "h", "e", " ", "a", "n", "a", "l", "y", "s", "i", "s", ":", "\n", "BT", "BT", "BT", "j", "s", "o", "n", "\n">> \o js \o <<"\n", "BT", "BT", "BT", "\n", "D", "o", "n", "e", ".">>
      [] w = "fence" -> <<"BT", "BT", "BT", "\n">> \o js \o <<"\n", "BT", "BT", "BT">>
      [] w = "prose" -> <<"T", "h", "e", " ", "c", "o", "i", "n", " ", "i", "s", " ", "C", "a", "n", "a", "d", "i", "a", "n", ":", " ">> \o js

Wrappings == {"bare", "json_fence", "fence", "prose"}

\* The completions: the values wrapped, and plain prose.
Completions ==
    {Wrapped(w, Serialize(v)) : w \in Wrappings, v \in ModelValues}
    \cup { FrenchEuro, NoJsonHere, <<>>, <<"BT", "BT", "BT", "j", "s", "o", "n", "\n", "n", "o", "t", " ", "j", "s", "o", "n", "\n", "BT", "BT", "BT", "\n", "{", "\"", "c", "o", "u", "n", "t", "r", "y", "\"", ":", " ", "\"", "S", "p", "a", "i", "n", "\"", "}">> }

Init ==
    /\ AZURE_OPENAI_API_KEY \in Settings
    /\ AZURE_OPENAI_ENDPOINT \in Settings
    /\ content_type \in ContentTypes
    /\ pc = "received"
    /\ calls = 0
    /\ upstream = "none"
    /\ raw_analysis = <<>>
    /\ beautiful_response = JNull
    /\ enhanced = FALSE
    /\ branch = "none"
    /\ status_code = 0
    /\ content = JNull
    /\ NormAtRest
    /\ ResolveAtRest
    /\ EnhanceAtRest
    /\ BuildAtRest

\* The handler ends with the answer a.
Respond(a) ==
    /\ pc' = "responded"
    /\ status_code' = a.status_code
    /\ content' = a.content
    /\ beautiful_response' = a.beautiful_response
    /\ enhanced' = a.enhanced
    /\ branch' = a.branch

\* The configuration check, first in the handler.
RejectUnconfigured ==
    /\ pc = "received"
    /\ Not(AZURE_OPENAI_API_KEY) \/ Not(AZURE_OPENAI_ENDPOINT)
    /\ Respond(Error(500, "unconfigured"))
    /\ UNCHANGED <<bvars, cvars, content_type, calls, upstream, raw_analysis, nvars, rvars, evars>>

\* An upload that declares no media type: startswith is called on None
\* outside the handler's try block, and the server answers 500.
FailUndeclaredType ==
    /\ pc = "received"
    /\ ~(Not(AZURE_OPENAI_API_KEY) \/ Not(AZURE_OPENAI_ENDPOINT))
    /\ content_type = None
    /\ Respond(Error(500, "unhandled"))
    /\ UNCHANGED <<bvars, cvars, content_type, calls, upstream, raw_analysis, nvars, rvars, evars>>

\* The media type check.
RejectNotImage ==
    /\ pc = "received"
    /\ ~(Not(AZURE_OPENAI_API_KEY) \/ Not(AZURE_OPENAI_ENDPOINT))
    /\ content_type # None
    /\ ~IsImage(content_type)
    /\ Respond(Error(400, "not_image"))
    /\ UNCHANGED <<bvars, cvars, content_type, calls, upstream, raw_analysis, nvars, rvars, evars>>

\* A handler that posts the request without the media type check.
SendRequestUnchecked ==
    /\ pc = "received"
    /\ ~(Not(AZURE_OPENAI_API_KEY) \/ Not(AZURE_OPENAI_ENDPOINT))
    /\ content_type # None
    /\ pc' = "awaiting"
    /\ calls' = calls + 1
    /\ UNCHANGED <<bvars, cvars, content_type, upstream, raw_analysis, beautiful_response, enhanced,
                   branch, status_code, content, nvars, rvars, evars>>

\* The upload is read and encoded and the request is posted; the handler
\* waits for the remote service.
SendRequest ==
    /\ pc = "received"
    /\ ~(Not(AZURE_OPENAI_API_KEY) \/ Not(AZURE_OPENAI_ENDPOINT))
    /\ content_type # None
    /\ IsImage(content_type)
    /\ pc' = "awaiting"
    /\ calls' = calls + 1
    /\ UNCHANGED <<bvars, cvars, content_type, upstream, raw_analysis, beautiful_response, enhanced,
                   branch, status_code, content, nvars, rvars, evars>>

\* A handler whose timeout is caught by the general except clause.
UpstreamTimeoutAsInternal ==
    /\ pc = "awaiting"
    /\ upstream' = "timeout"
    /\ Respond(Error(500, "internal_error"))
    /\ UNCHANGED <<bvars, cvars, content_type, calls, raw_analysis, nvars, rvars, evars>>

\* httpx.TimeoutException after 90 seconds.
UpstreamTimeout ==
    /\ pc = "awaiting"
    /\ upstream' = "timeout"
    /\ Respond(Error(504, "timeout"))
    /\ UNCHANGED <<bvars, cvars, content_type, calls, raw_analysis, nvars, rvars, evars>>

\* A transport failure that is no timeout (httpx.ConnectError and the like):
\* client.post raises and except Exception answers 500.
UpstreamTransportError ==
    /\ pc = "awaiting"
    /\ upstream' = "transport_error"
    /\ Respond(Error(500, "internal_error"))
    /\ UNCHANGED <<bvars, cvars, content_type, calls, raw_analysis, nvars, rvars, evars>>

\* A handler that starts over after a status other than 200.
UpstreamErrorStatusRetry ==
    /\ pc = "awaiting"
    /\ upstream' = "error_status"
    /\ pc' = "received"
    /\ UNCHANGED <<bvars, cvars, content_type, calls, raw_analysis, beautiful_response, enhanced,
                   branch, status_code, content, nvars, rvars, evars>>

\* A status other than 200: the HTTPException raised in the try block is
\* caught by except Exception and raised again as a 500.
UpstreamErrorStatus ==
    /\ pc = "awaiting"
    /\ upstream' = "error_status"
    /\ Respond(Error(500, "upstream_error"))
    /\ UNCHANGED <<bvars, cvars, content_type, calls, raw_analysis, nvars, rvars, evars>>

\* Status 200 with no "choices" or an empty list of them.
UpstreamNoChoices ==
    /\ pc = "awaiting"
    /\ upstream' = "no_choices"
    /\ Respond(Error(500, "unexpected_format"))
    /\ UNCHANGED <<bvars, cvars, content_type, calls, raw_analysis, nvars, rvars, evars>>

\* Status 200 with a body that is no JSON (response.json() raises), or with
\* a first choice that has no message content (KeyError): except Exception
\* answers 500.
UpstreamMalformedEnvelope ==
    /\ pc = "awaiting"
    /\ upstream' = "malformed"
    /\ Respond(Error(500, "internal_error"))
    /\ UNCHANGED <<bvars, cvars, content_type, calls, raw_analysis, nvars, rvars, evars>>

\* Status 200 with a first choice whose message content is the completion.
UpstreamCompletion ==
    /\ pc = "awaiting"
    /\ \E raw \in Completions :
        /\ upstream' = "completion"
        /\ raw_analysis' = raw
        /\ Respond(CompletionAnswer(raw))
    /\ UNCHANGED <<bvars, cvars, content_type, calls, nvars, rvars, evars>>

Next ==
    \/ RejectUnconfigured
    \/ FailUndeclaredType
    \/ RejectNotImage
    \/ SendRequest
    \/ UpstreamTimeout
    \/ UpstreamTransportError
    \/ UpstreamErrorStatus
    \/ UpstreamNoChoices
    \/ UpstreamMalformedEnvelope
    \/ UpstreamCompletion

Spec == Init /\ [][Next]_vars

(***************************************************************************)
(* The report builder on its own.                                          *)
(***************************************************************************)
\* The keys the parsed completion may hold: aliases of the denomination and
\* of the collector value.
BuildKeys ==
    <<<<"d", "e", "n", "o", "m", "i", "n", "a", "t", "i", "o", "n">>, <<"v", "a", "l", "u", "e">>, <<"f", "a", "c", "e", "_", "v", "a", "l", "u", "e">>, <<"c", "o", "l", "l", "e", "c", "t", "o", "r", "_", "v", "a", "l", "u", "e">>, <<"w", "o", "r", "t", "h">>>>

\* The values a key may hold.
BuildValues == { JStr(<<"5", " ", "y", "e", "n">>), JStr(<<"1", "0", " ", "d", "o", "l", "l", "a", "r", "s">>), Unknown, JNum(0) }

\* The objects over the keys: each key absent or holding one of the values.
BuildObjects ==
    LET Slot == BuildValues \cup {JV("absent", 0, <<>>, <<>>, <<>>)}
        RECURSIVE build(_, _, _)
        build(f, i, acc) ==
            IF i > Len(BuildKeys) THEN acc
            ELSE build(f, i + 1,
                       IF f[i].t = "absent" THEN acc ELSE Put(acc, BuildKeys[i], f[i]))
    IN  {build(f, 1, JObj(<<>>, <<>>)) : f \in [1..Len(BuildKeys) -> Slot]}

\* What the handler passes: an object, or what else a completion decodes to.
BuildData == BuildObjects \cup {JStr(<<"5", " ", "y", "e", "n">>), JArr(<<JStr(<<"v", "a", "l", "u", "e">>)>>), JNull}

BuildInit ==
    /\ parsed_analysis \in BuildData
    /\ built = Returned(JNull)
    /\ bpc = "start"
    /\ NormAtRest
    /\ ResolveAtRest
    /\ EnhanceAtRest
    /\ RequestAtRest

Build ==
    /\ bpc = "start"
    /\ built' = create_beautiful_response(parsed_analysis, DeploymentName, Filename, ImageSize)
    /\ bpc' = IF built'.raised THEN "raised" ELSE "done"
    /\ UNCHANGED <<parsed_analysis, nvars, rvars, evars, cvars, hvars>>

BuildNext == Build

SpecBuild == BuildInit /\ [][BuildNext]_vars

(***************************************************************************)
(* Claims about the normalizer.                                            *)
(***************************************************************************)
\* The positions at which p occurs in s.
Occurrences(s, p) == {i \in 1..Len(s) : StartsAt(s, p, i)}

\* The interior of the json fence that opens at i: up to the nearest closing
\* fence, <<"none">> when the fence is not closed.
JsonFenceInterior(s, i) ==
    LET closers == {k \in Occurrences(s, Fence) : k >= i + 7}
    IN  IF closers = {} THEN <<"none">>
        ELSE SubSeq(s, i + 7, (CHOOSE k \in closers : \A m \in closers : k <= m) - 1)

\* The json fence that opens at i is closed and its trimmed interior is JSON.
ValidJsonFenceAt(s, i) ==
    /\ JsonFenceInterior(s, i) # <<"none">>
    /\ Loads(Strip(JsonFenceInterior(s, i))).ok

\* The four candidates of the normalizer in their order, each with the
\* outcome of decoding it; a step that finds nothing has no candidate.
StepOutcomes(s) ==
    (IF SearchJsonFence(s).found THEN <<Loads(Strip(SearchJsonFence(s).group))>> ELSE <<>>)
    \o (IF SearchFence(s).found THEN <<Loads(Strip(SearchFence(s).group))>> ELSE <<>>)
    \o (IF SearchBraces(s).found THEN <<Loads(SearchBraces(s).group)>> ELSE <<>>)
    \o <<Loads(Strip(s))>>

\* The value of the first step that decodes, the raw wrapper when none does.
FirstDecodingStep(s) ==
    LET outs == StepOutcomes(s)
        good == {i \in 1..Len(outs) : outs[i].ok}
    IN  IF good = {} THEN RawWrapper(s)
        ELSE outs[CHOOSE i \in good : \A j \in good : i <= j].v

\* C3: a decoding failure at any step of extract_json means "try the next
\* step": the function returns the value of the first of the steps json
\* fence, generic fence, brace span, whole trimmed text that decodes, and the
\* raw wrapper only when every step has failed.
C3_FailureTriesNextStep ==
    npc # "start" => result = Returned(FirstDecodingStep(text))

\* C4 as stated: whenever the text holds a json fence whose trimmed interior
\* is valid JSON, extract_json returns the value of that fence, whatever
\* surrounds it.
C4_AnyValidJsonFenceIsReturned ==
    npc # "start" =>
        \A i \in Occurrences(text, FenceJson) :
            ValidJsonFenceAt(text, i) =>
                result = Returned(Loads(Strip(JsonFenceInterior(text, i))).v)

\* The place of the first json fence of the text, 0 when there is none.
FirstJsonFence(s) ==
    LET occ == Occurrences(s, FenceJson)
    IN  IF occ = {} THEN 0 ELSE CHOOSE i \in occ : \A j \in occ : i <= j

\* C4 as amended: when the first json fence of the text (from the first
\* occurrence of the opening json fence to the nearest fence after it) has a
\* trimmed interior that is valid JSON, extract_json returns exactly the
\* value decoded from that interior, whatever surrounds the fence.
C4_FirstValidJsonFenceIsReturned ==
    (npc # "start" /\ FirstJsonFence(text) # 0
        /\ ValidJsonFenceAt(text, FirstJsonFence(text))) =>
        result = Returned(Loads(Strip(JsonFenceInterior(text, FirstJsonFence(text)))).v)

\* A valid first json fence with text before and after it has been normalized.
C4_Witness ==
    /\ npc = "normalized"
    /\ FirstJsonFence(text) > 1
    /\ ValidJsonFenceAt(text, FirstJsonFence(text))
    /\ Len(text) > FirstJsonFence(text) + 6 + Len(JsonFenceInterior(text, FirstJsonFence(text))) + 3
    /\ result.v = Loads(Strip(JsonFenceInterior(text, FirstJsonFence(text)))).v

\* C5: extract_json returns a value for every text and never raises, and
\* when no step yields valid JSON the value is the single-key object
\* {"raw": text} holding the unmodified text; "no json here" gives
\* {"raw": "no json here"}.
C5_NeverRaisesRawWhenNothingDecodes ==
    npc # "start" =>
        /\ ~result.raised
        /\ npc # "raised"
        /\ (\A i \in 1..Len(StepOutcomes(text)) : ~StepOutcomes(text)[i].ok) =>
                result.v = JObj(<<<<"r", "a", "w">>>>, <<JStr(text)>>)
        /\ text = NoJsonHere =>
                Serialize(result.v) = <<"{", "\"", "r", "a", "w", "\"", ":", " ", "\"", "n", "o", " ", "j", "s", "o", "n", " ", "h", "e", "r", "e", "\"", "}">>

\* A text with an unclosed fence and unbalanced braces has been normalized to
\* the raw wrapper.
C5_Witness ==
    /\ npc = "normalized"
    /\ Occurrences(text, Fence) # {}
    /\ Occurrences(text, <<"{">>) # {}
    /\ Occurrences(text, <<"}">>) = {}
    /\ result.v = RawWrapper(text)

\* C6 as stated: for every text t with v = extract_json(t),
\* extract_json(serialize(v)) = v.
C6_RoundTrip ==
    npc = "done" => result2 = result

\* s holds an opening fence and a closing fence after it.
HasFencePair(s) ==
    \E i, k \in Occurrences(s, Fence) : k >= i + 3

\* s holds a "{" and a "}" after it.
HasBraceSpan(s) ==
    \E i, k \in 1..Len(s) : i < k /\ s[i] = "{" /\ s[k] = "}"

\* C6 as amended: for every text t with v = extract_json(t), the round trip
\* extract_json(serialize(v)) = v holds when serialize(v) holds no pair of
\* fences and either v is an object or serialize(v) holds no "{" with a "}"
\* after it.
C6_RoundTripWithoutFencesAndSpans ==
    (npc = "done" /\ ~HasFencePair(text2)
        /\ (result.v.t = "obj" \/ ~HasBraceSpan(text2))) =>
        result2 = result

\* The raw wrapper of a text that holds braces and a quote made the round trip.
C6_Witness ==
    /\ npc = "done"
    /\ ~HasFencePair(text2)
    /\ result.v = RawWrapper(text)
    /\ HasBraceSpan(text)
    /\ Occurrences(text, <<"\"">>) # {}
    /\ result2 = result

\* Control reaches the brace step: the text has no closed json fence, and
\* no generic fence whose trimmed interior decodes.
ReachesBraceStep(s) ==
    LET occ == Occurrences(s, Fence)
        open == CHOOSE i \in occ : \A j \in occ : i <= j
        closers == {k \in occ : k >= open + 3}
        close == CHOOSE k \in closers : \A m \in closers : k <= m
    IN  /\ FirstJsonFence(s) = 0 \/ JsonFenceInterior(s, FirstJsonFence(s)) = <<"none">>
        /\ \/ occ = {}
           \/ closers = {}
           \/ ~Loads(Strip(SubSeq(s, open + 3, close - 1))).ok

\* The text from its first "{" to its last "}".
BraceSpan(s) ==
    LET opens == {i \in 1..Len(s) : s[i] = "{"}
        closes == {k \in 1..Len(s) : s[k] = "}"}
    IN  SubSeq(s, CHOOSE i \in opens : \A j \in opens : i <= j,
                  CHOOSE k \in closes : \A m \in closes : k >= m)

\* c begins with a JSON object and ends with another one.
TwoObjects(c) ==
    \E j \in 1..Len(c) :
        /\ c[j] = "}"
        /\ Loads(SubSeq(c, 1, j)).ok
        /\ Loads(SubSeq(c, 1, j)).v.t = "obj"
        /\ \E m \in (j + 1)..Len(c) :
            /\ c[m] = "{"
            /\ Loads(SubSeq(c, m, Len(c))).ok
            /\ Loads(SubSeq(c, m, Len(c))).v.t = "obj"

\* C16: when no fence step has returned, the candidate of extract_json is
\* the span from the first "{" to the last "}" of the whole text, braces not
\* balanced: the function returns what the span decodes to and the raw
\* wrapper when it does not decode, and a text with two separate JSON
\* objects gives a span over both, which does not decode, so neither object
\* is returned.
C16_BraceSpanIsFirstToLast ==
    (npc # "start" /\ ReachesBraceStep(text) /\ HasBraceSpan(text)) =>
        LET c == BraceSpan(text)
        IN  /\ result = IF Loads(c).ok THEN Returned(Loads(c).v)
                        ELSE Returned(RawWrapper(text))
            /\ TwoObjects(c) =>
                    /\ ~Loads(c).ok
                    /\ result = Returned(RawWrapper(text))

\* A text without fences that holds two objects inside other text has been
\* normalized to the raw wrapper.
C16_Witness ==
    /\ npc = "normalized"
    /\ Occurrences(text, Fence) = {}
    /\ HasBraceSpan(text)
    /\ TwoObjects(BraceSpan(text))
    /\ Len(BraceSpan(text)) < Len(text)
    /\ result.v = RawWrapper(text)

(***************************************************************************)
(* Claims about the field resolver.                                        *)
(***************************************************************************)
\* The least element of a non-empty set of numbers.
Least(S) == CHOOSE i \in S : \A j \in S : i <= j

\* A value that is there (not null), not empty and not a sentinel string.
PresentNonEmpty(v) ==
    /\ v.t # "null"
    /\ ~(v.t = "str" /\ v.s = <<>>)
    /\ ~(v.t = "arr" /\ v.kids = <<>>)
    /\ ~(v.t = "obj" /\ v.k = <<>>)
    /\ v # JStr(<<"u", "n", "k", "n", "o", "w", "n">>)
    /\ v # JStr(<<"U", "n", "k", "n", "o", "w", "n">>)

\* As above, and neither false nor the number 0.
PresentNonEmptyNonZero(v) ==
    PresentNonEmpty(v) /\ v.t # "false" /\ ~(v.t = "num" /\ v.n = 0)

\* The places of the aliases that are keys of d with a value that qualifies.
Qualifying(d, names, ok(_)) ==
    {i \in 1..Len(names) : HasKey(d, names[i]) /\ ok(Get(d, names[i]))}

\* The value of the first alias that qualifies, the default when the data
\* is no object or no alias qualifies.
FirstQualifying(d, names, dflt, ok(_)) ==
    IF d.t # "obj" \/ Qualifying(d, names, ok) = {} THEN dflt
    ELSE Get(d, names[Least(Qualifying(d, names, ok))])

\* C7 as stated: extract_field_value returns the default when the data is
\* not an object, otherwise the value of the first alias, in list order, that
\* is a key of the data with a value that is present, non-empty and not
\* "unknown" or "Unknown", and the default when no alias qualifies.
C7_FirstPresentNonEmptyAlias ==
    rpc = "done" => value = FirstQualifying(data, possible_names, default, PresentNonEmpty)

\* C7 as amended: as stated, where a value qualifies when it is present (not
\* null), not false, not the number 0, not an empty string, array or object,
\* and not "unknown" or "Unknown"; ({"year": "1975"}, ["year first
\* released", "year"]) gives "1975" and ({"year": "unknown"}, ["year"]) the
\* default.
C7_FirstTruthyAlias ==
    rpc = "done" =>
        /\ value = FirstQualifying(data, possible_names, default, PresentNonEmptyNonZero)
        /\ (data = JObj(<<<<"y", "e", "a", "r">>>>, <<JStr(<<"1", "9", "7", "5">>)>>)
                /\ possible_names = <<<<"y", "e", "a", "r", " ", "f", "i", "r", "s", "t", " ", "r", "e", "l", "e", "a", "s", "e", "d">>, <<"y", "e", "a", "r">>>>)
            => value = JStr(<<"1", "9", "7", "5">>)
        /\ (data = JObj(<<<<"y", "e", "a", "r">>>>, <<JStr(<<"u", "n", "k", "n", "o", "w", "n">>)>>)
                /\ possible_names = <<<<"y", "e", "a", "r">>>>)
            => value = default
        /\ data.t # "obj" => value = default

\* The first alias holds a sentinel, is skipped, and the second is returned.
C7_Witness ==
    /\ rpc = "done"
    /\ possible_names = <<<<"y", "e", "a", "r", " ", "f", "i", "r", "s", "t", " ", "r", "e", "l", "e", "a", "s", "e", "d">>, <<"y", "e", "a", "r">>>>
    /\ data.t = "obj"
    /\ HasKey(data, <<"y", "e", "a", "r", " ", "f", "i", "r", "s", "t", " ", "r", "e", "l", "e", "a", "s", "e", "d">>)
    /\ Get(data, <<"y", "e", "a", "r", " ", "f", "i", "r", "s", "t", " ", "r", "e", "l", "e", "a", "s", "e", "d">>) = JStr(<<"u", "n", "k", "n", "o", "w", "n">>)
    /\ HasKey(data, <<"y", "e", "a", "r">>)
    /\ value = JStr(<<"1", "9", "7", "5">>)

(***************************************************************************)
(* Claims about the report builder.                                        *)
(***************************************************************************)
\* d holds key with a value the resolver accepts.
Acceptable(d, key) ==
    \E i \in 1..Len(d.k) : d.k[i] = key /\ PresentNonEmptyNonZero(d.kids[i])

\* The value d holds under key.
ValueUnder(d, key) == d.kids[CHOOSE i \in 1..Len(d.k) : d.k[i] = key]

\* The aliases of the collector value other than "value", in their order.
OwnCollectorNames == <<<<"c", "o", "l", "l", "e", "c", "t", "o", "r", "_", "v", "a", "l", "u", "e">>, <<"m", "a", "r", "k", "e", "t", "_", "v", "a", "l", "u", "e">>, <<"e", "s", "t", "i", "m", "a", "t", "e", "d", "_", "v", "a", "l", "u", "e">>, <<"w", "o", "r", "t", "h">>>>

\* C17: for every parsed object that has an acceptable value under "value"
\* and none under "denomination", the report has that value both as
\* basic_info.denomination and as value_assessment.collector_value; the
\* collector value is that of "value" whenever "value" is acceptable, and
\* comes from "collector_value", "market_value", "estimated_value" or
\* "worth" only when "value" is absent or not acceptable.
C17_ValueFeedsDenominationAndCollectorValue ==
    (bpc = "done" /\ parsed_analysis.t = "obj") =>
        LET denomination == GetPath(built.v, <<<<"c", "o", "i", "n", "_", "a", "n", "a", "l", "y", "s", "i", "s">>, <<"b", "a", "s", "i", "c", "_", "i", "n", "f", "o">>, <<"d", "e", "n", "o", "m", "i", "n", "a", "t", "i", "o", "n">>>>)
            collector_value ==
                GetPath(built.v, <<<<"c", "o", "i", "n", "_", "a", "n", "a", "l", "y", "s", "i", "s">>, <<"v", "a", "l", "u", "e", "_", "a", "s", "s", "e", "s", "s", "m", "e", "n", "t">>, <<"c", "o", "l", "l", "e", "c", "t", "o", "r", "_", "v", "a", "l", "u", "e">>>>)
            own == {i \in 1..Len(OwnCollectorNames) : Acceptable(parsed_analysis, OwnCollectorNames[i])}
        IN  /\ (Acceptable(parsed_analysis, <<"v", "a", "l", "u", "e">>) /\ ~Acceptable(parsed_analysis, <<"d", "e", "n", "o", "m", "i", "n", "a", "t", "i", "o", "n">>))
                    => /\ denomination = ValueUnder(parsed_analysis, <<"v", "a", "l", "u", "e">>)
                       /\ collector_value = denomination
            /\ Acceptable(parsed_analysis, <<"v", "a", "l", "u", "e">>)
                    => collector_value = ValueUnder(parsed_analysis, <<"v", "a", "l", "u", "e">>)
            /\ ~Acceptable(parsed_analysis, <<"v", "a", "l", "u", "e">>)
                    => collector_value =
                            IF own = {} THEN JStr(<<"u", "n", "k", "n", "o", "w", "n">>)
                            ELSE ValueUnder(parsed_analysis, OwnCollectorNames[Least(own)])

\* A report was built from an object whose "value" is acceptable, whose
\* "denomination" is not and whose "collector_value" holds something else:
\* the value is reported twice.
C17_Witness ==
    /\ bpc = "done"
    /\ Acceptable(parsed_analysis, <<"v", "a", "l", "u", "e">>)
    /\ ~Acceptable(parsed_analysis, <<"d", "e", "n", "o", "m", "i", "n", "a", "t", "i", "o", "n">>)
    /\ Acceptable(parsed_analysis, <<"c", "o", "l", "l", "e", "c", "t", "o", "r", "_", "v", "a", "l", "u", "e">>)
    /\ ValueUnder(parsed_analysis, <<"c", "o", "l", "l", "e", "c", "t", "o", "r", "_", "v", "a", "l", "u", "e">>) # ValueUnder(parsed_analysis, <<"v", "a", "l", "u", "e">>)
    /\ GetPath(built.v, <<<<"c", "o", "i", "n", "_", "a", "n", "a", "l", "y", "s", "i", "s">>, <<"b", "a", "s", "i", "c", "_", "i", "n", "f", "o">>, <<"d", "e", "n", "o", "m", "i", "n", "a", "t", "i", "o", "n">>>>)
            = ValueUnder(parsed_analysis, <<"v", "a", "l", "u", "e">>)
    /\ GetPath(built.v, <<<<"c", "o", "i", "n", "_", "a", "n", "a", "l", "y", "s", "i", "s">>, <<"v", "a", "l", "u", "e", "_", "a", "s", "s", "e", "s", "s", "m", "e", "n", "t">>, <<"c", "o", "l", "l", "e", "c", "t", "o", "r", "_", "v", "a", "l", "u", "e">>>>)
            = ValueUnder(parsed_analysis, <<"v", "a", "l", "u", "e">>)

(***************************************************************************)
(* Claims about the text-pattern fallback.                                 *)
(***************************************************************************)
\* kw occurs in low: at some place p, the characters of low from p on are
\* those of kw.
OccursIn(kw, low) ==
    \E p \in 1..(Len(low) - Len(kw) + 1) :
        \A q \in 1..Len(kw) : low[p + q - 1] = kw[q]

\* The places of the entries of the table that have a keyword occurring in
\* the lowercased text low.
MatchingEntries(table, low) ==
    {i \in 1..Len(table) :
        \E j \in 1..Len(table[i].patterns) : OccursIn(table[i].patterns[j], low)}

\* The names of the table in its order.
Names(table) == [i \in 1..Len(table) |-> table[i].name]

\* C8: the country is set to the title-cased name of the first entry of the
\* country table (France, USA, UK, Germany, Italy, Spain, Canada, Australia,
\* Japan, China) that has a keyword occurring in the lowercased text, the
\* denomination to the name of the first such entry of the denomination
\* table, later matching entries being ignored; "This is a French Republic
\* coin, 1 euro" gives "France" and "1 euro".
C8_FirstMatchInTableOrder ==
    epc = "done" =>
        LET low == [i \in 1..Len(raw_text) |-> LowerChar(raw_text[i])]
            c == MatchingEntries(country_patterns, low)
            d == MatchingEntries(denomination_patterns, low)
        IN  /\ Names(country_patterns)
                 = <<<<"f", "r", "a", "n", "c", "e">>, <<"u", "s", "a">>, <<"u", "k">>, <<"g", "e", "r", "m", "a", "n", "y">>, <<"i", "t", "a", "l", "y">>, <<"s", "p", "a", "i", "n">>,
                     <<"c", "a", "n", "a", "d", "a">>, <<"a", "u", "s", "t", "r", "a", "l", "i", "a">>, <<"j", "a", "p", "a", "n">>, <<"c", "h", "i", "n", "a">>>>
            /\ c # {} =>
                 /\ GetPath(response, BasicInfo(<<"c", "o", "u", "n", "t", "r", "y">>)).t = "str"
                 /\ Lower(GetPath(response, BasicInfo(<<"c", "o", "u", "n", "t", "r", "y">>)).s)
                        = country_patterns[Least(c)].name
                 /\ GetPath(response, BasicInfo(<<"c", "o", "u", "n", "t", "r", "y">>)).s[1]
                        = UpperChar(country_patterns[Least(c)].name[1])
            /\ d # {} =>
                 GetPath(response, BasicInfo(<<"d", "e", "n", "o", "m", "i", "n", "a", "t", "i", "o", "n">>))
                    = JStr(denomination_patterns[Least(d)].name)
            /\ raw_text = FrenchEuro =>
                 /\ GetPath(response, BasicInfo(<<"c", "o", "u", "n", "t", "r", "y">>)) = JStr(<<"F", "r", "a", "n", "c", "e">>)
                 /\ GetPath(response, BasicInfo(<<"d", "e", "n", "o", "m", "i", "n", "a", "t", "i", "o", "n">>)) = JStr(<<"1", " ", "e", "u", "r", "o">>)

\* Several countries match a text, a denomination matches too, and the
\* fallback has run.
C8_Witness ==
    /\ epc = "done"
    /\ Cardinality(MatchingEntries(country_patterns, Lower(raw_text))) >= 2
    /\ MatchingEntries(denomination_patterns, Lower(raw_text)) # {}
    /\ GetPath(response, BasicInfo(<<"c", "o", "u", "n", "t", "r", "y">>)) = JStr(<<"U", "s", "a">>)

\* The names of the entries at the places m, from place i on, with ", "
\* between them.
RECURSIVE CommaList(_, _, _)
CommaList(table, m, i) ==
    IF i > Len(table) THEN <<>>
    ELSE IF i \notin m THEN CommaList(table, m, i + 1)
    ELSE IF \E j \in m : j > i
         THEN table[i].name \o <<",", " ">> \o CommaList(table, m, i + 1)
    ELSE table[i].name

\* C9: the composition is overwritten with the names of all entries of the
\* composition table (copper, bronze, brass, silver, gold, nickel, zinc,
\* aluminum, steel) that have a keyword occurring in the lowercased text, in
\* table order and joined by ", ", whatever their order in the text; a text
\* in which copper and zinc are the entries that match gives "copper, zinc".
C9_AllMatchesInTableOrder ==
    epc = "done" =>
        LET low == [i \in 1..Len(raw_text) |-> LowerChar(raw_text[i])]
            m == MatchingEntries(composition_patterns, low)
        IN  /\ Names(composition_patterns)
                 = <<<<"c", "o", "p", "p", "e", "r">>, <<"b", "r", "o", "n", "z", "e">>, <<"b", "r", "a", "s", "s">>, <<"s", "i", "l", "v", "e", "r">>, <<"g", "o", "l", "d">>, <<"n", "i", "c", "k", "e", "l">>,
                     <<"z", "i", "n", "c">>, <<"a", "l", "u", "m", "i", "n", "u", "m">>, <<"s", "t", "e", "e", "l">>>>
            /\ m # {} =>
                 GetPath(response, BasicInfo(<<"c", "o", "m", "p", "o", "s", "i", "t", "i", "o", "n">>))
                    = JStr(CommaList(composition_patterns, m, 1))
            /\ m = {1, 7} =>
                 GetPath(response, BasicInfo(<<"c", "o", "m", "p", "o", "s", "i", "t", "i", "o", "n">>)) = JStr(<<"c", "o", "p", "p", "e", "r", ",", " ", "z", "i", "n", "c">>)

\* A text that names zinc before copper has been scanned.
C9_Witness ==
    /\ epc = "done"
    /\ raw_text = <<"z", "i", "n", "c", " ", "c", "o", "p", "p", "e", "r", " ">>
    /\ GetPath(response, BasicInfo(<<"c", "o", "m", "p", "o", "s", "i", "t", "i", "o", "n">>)) = JStr(<<"c", "o", "p", "p", "e", "r", ",", " ", "z", "i", "n", "c">>)

(***************************************************************************)
(* Claims about the request handler.                                       *)
(***************************************************************************)
\* v is an object that has every key of keys.
HasKeys(v, keys) ==
    v.t = "obj" /\ \A i \in 1..Len(keys) : \E j \in 1..Len(v.k) : v.k[j] = keys[i]

\* The fixed shape of a CoinReport: every field is there.
WellFormedReport(v) ==
    /\ HasKeys(v, <<<<"s", "u", "c", "c", "e", "s", "s">>, <<"t", "i", "m", "e", "s", "t", "a", "m", "p">>, <<"c", "o", "i", "n", "_", "a", "n", "a", "l", "y", "s", "i", "s">>, <<"m", "e", "t", "a", "d", "a", "t", "a">>>>)
    /\ HasKeys(Get(v, <<"c", "o", "i", "n", "_", "a", "n", "a", "l", "y", "s", "i", "s">>),
               <<<<"b", "a", "s", "i", "c", "_", "i", "n", "f", "o">>, <<"v", "a", "l", "u", "e", "_", "a", "s", "s", "e", "s", "s", "m", "e", "n", "t">>, <<"d", "e", "s", "c", "r", "i", "p", "t", "i", "o", "n">>,
                 <<"h", "i", "s", "t", "o", "r", "i", "c", "a", "l", "_", "c", "o", "n", "t", "e", "x", "t">>, <<"t", "e", "c", "h", "n", "i", "c", "a", "l", "_", "d", "e", "t", "a", "i", "l", "s">>>>)
    /\ HasKeys(GetPath(v, <<<<"c", "o", "i", "n", "_", "a", "n", "a", "l", "y", "s", "i", "s">>, <<"b", "a", "s", "i", "c", "_", "i", "n", "f", "o">>>>),
               <<<<"r", "e", "l", "e", "a", "s", "e", "d", "_", "y", "e", "a", "r">>, <<"c", "o", "u", "n", "t", "r", "y">>, <<"d", "e", "n", "o", "m", "i", "n", "a", "t", "i", "o", "n">>, <<"c", "o", "m", "p", "o", "s", "i", "t", "i", "o", "n">>>>)
    /\ HasKeys(GetPath(v, <<<<"c", "o", "i", "n", "_", "a", "n", "a", "l", "y", "s", "i", "s">>, <<"v", "a", "l", "u", "e", "_", "a", "s", "s", "e", "s", "s", "m", "e", "n", "t">>>>),
               <<<<"c", "o", "l", "l", "e", "c", "t", "o", "r", "_", "v", "a", "l", "u", "e">>, <<"r", "a", "r", "i", "t", "y">>>>)
    /\ HasKeys(Get(v, <<"m", "e", "t", "a", "d", "a", "t", "a">>),
               <<<<"m", "o", "d", "e", "l", "_", "u", "s", "e", "d">>, <<"i", "m", "a", "g", "e", "_", "f", "i", "l", "e", "n", "a", "m", "e">>, <<"i", "m", "a", "g", "e", "_", "s", "i", "z", "e", "_", "b", "y", "t", "e", "s">>,
                 <<"p", "r", "o", "c", "e", "s", "s", "i", "n", "g", "_", "t", "i", "m", "e">>>>)

\* C1: every request whose upstream call succeeds (status 200 with a
\* choice) is answered 200 with a report that holds every field of the
\* CoinReport, whatever the completion text is.
C1_EveryCompletionGivesAFullReport ==
    (pc = "responded" /\ upstream = "completion") =>
        status_code = 200 /\ WellFormedReport(content)

\* C2: on every successful upstream call the text-pattern fallback is
\* applied exactly when the country and the denomination resolved from the
\* parsed completion are both "unknown", whether the completion decoded
\* directly or was salvaged by the normalizer.
C2_FallbackExactlyWhenBothUnknown ==
    (pc = "responded" /\ upstream = "completion") =>
        (enhanced <=>
            /\ beautiful_response # JNull
            /\ GetPath(beautiful_response, <<<<"c", "o", "i", "n", "_", "a", "n", "a", "l", "y", "s", "i", "s">>, <<"b", "a", "s", "i", "c", "_", "i", "n", "f", "o">>, <<"c", "o", "u", "n", "t", "r", "y">>>>)
                    = JStr(<<"u", "n", "k", "n", "o", "w", "n">>)
            /\ GetPath(beautiful_response,
                       <<<<"c", "o", "i", "n", "_", "a", "n", "a", "l", "y", "s", "i", "s">>, <<"b", "a", "s", "i", "c", "_", "i", "n", "f", "o">>, <<"d", "e", "n", "o", "m", "i", "n", "a", "t", "i", "o", "n">>>>)
                    = JStr(<<"u", "n", "k", "n", "o", "w", "n">>))

\* The upload declares a media type and it does not start with "image/".
DeclaresNoImage(ct) ==
    /\ ct # <<"None">>
    /\ Len(ct) < 6 \/ SubSeq(ct, 1, 6) # <<"i", "m", "a", "g", "e", "/">>

\* Both settings are there and not empty.
Configured ==
    /\ AZURE_OPENAI_API_KEY \notin {<<"None">>, <<>>}
    /\ AZURE_OPENAI_ENDPOINT \notin {<<"None">>, <<>>}

\* C10 as stated: every request whose declared media type does not start
\* with "image/" is answered 400, whatever the service configuration.
C10_NoImageIsAnswered400 ==
    (pc = "responded" /\ DeclaresNoImage(content_type)) => status_code = 400

\* C10 as amended: every request whose declared media type does not start
\* with "image/" is answered 400 when the API key and the endpoint are both
\* configured, and 500 when either is missing.
C10_NoImageIsAnswered400WhenConfigured ==
    (pc = "responded" /\ DeclaresNoImage(content_type)) =>
        /\ Configured => status_code = 400
        /\ ~Configured => status_code = 500

\* A configured service has rejected an upload whose media type holds
\* "image/" but does not start with it.
C10_Witness ==
    /\ pc = "responded"
    /\ Configured
    /\ content_type = <<"a", "p", "p", "l", "i", "c", "a", "t", "i", "o", "n", "/", "i", "m", "a", "g", "e", "/", "p", "n", "g">>
    /\ status_code = 400
    /\ calls = 0

\* C11: every request made while the API key or the endpoint is not
\* configured is answered 500, whether the upload is an image or not, and
\* no outbound call is made for it.
C11_UnconfiguredIsAnswered500WithoutCall ==
    ~Configured =>
        /\ calls = 0
        /\ upstream = "none"
        /\ pc \in {"received", "responded"}
        /\ pc = "responded" => status_code = 500

\* An image upload has been answered 500 by a service that has its key but
\* no endpoint.
C11_Witness ==
    /\ pc = "responded"
    /\ AZURE_OPENAI_API_KEY = <<"s", "e", "t">>
    /\ AZURE_OPENAI_ENDPOINT = <<>>
    /\ content_type = <<"i", "m", "a", "g", "e", "/", "p", "n", "g">>
    /\ status_code = 500
    /\ calls = 0

\* C12: no outbound call is ever made for a request whose declared media
\* type does not start with "image/": the request never gets past the media
\* type check to the reading, encoding and posting of the upload.
C12_NoCallForNoImage ==
    DeclaresNoImage(content_type) =>
        /\ calls = 0
        /\ upstream = "none"
        /\ pc \in {"received", "responded"}

\* A configured service has rejected a text upload and has made no call.
C12_Witness ==
    /\ pc = "responded"
    /\ Configured
    /\ content_type = <<"t", "e", "x", "t", "/", "p", "l", "a", "i", "n">>
    /\ status_code = 400
    /\ calls = 0
    /\ upstream = "none"

\* The upstream failures that are no timeout.
OtherUpstreamFailures == {"error_status", "no_choices", "transport_error", "malformed"}

\* C13: an upstream timeout is answered 504, and an upstream answer with a
\* non-success status or without choices is answered 500; a timeout is never
\* answered 500 and no other upstream failure is answered 504.
C13_TimeoutIs504OtherFailuresAre500 ==
    pc = "responded" =>
        /\ upstream = "timeout" => status_code = 504
        /\ upstream \in OtherUpstreamFailures => status_code = 500
        /\ status_code = 504 => upstream = "timeout"

\* The outbound call has timed out and the request was answered 504.
C13_Witness ==
    /\ pc = "responded"
    /\ upstream = "timeout"
    /\ status_code = 504
    /\ calls = 1

\* C14: one request sends at most one outbound request: a call is made only
\* when none was made before, every outcome of the call ends the request,
\* a failure (timeout, non-success status, malformed envelope, internal
\* exception) ends it with an error response, and a request that has ended
\* takes no further step.
C14_AtMostOneCallNoRetry ==
    [][ /\ calls' # calls => (calls = 0 /\ calls' = 1 /\ upstream = "none")
        /\ pc = "awaiting" => (pc' = "responded" /\ calls' = calls)
        /\ (upstream' \in OtherUpstreamFailures \cup {"timeout"} \/ branch' = "internal_error")
                => (pc' = "responded" /\ status_code' \in {500, 504} /\ calls' = 1)
        /\ pc # "responded" ]_vars

\* The remote service has answered with an error status and the request has
\* ended with a 500 after its one call.
C14_Witness ==
    /\ pc = "responded"
    /\ upstream = "error_status"
    /\ status_code = 500
    /\ calls = 1

\* The metadata subfields the handler sets, with the values it sets.
ControlledMetadata ==
    << <<<<"m", "o", "d", "e", "l", "_", "u", "s", "e", "d">>, DeploymentName>>, <<<<"i", "m", "a", "g", "e", "_", "f", "i", "l", "e", "n", "a", "m", "e">>, Filename>>,
       <<<<"i", "m", "a", "g", "e", "_", "s", "i", "z", "e", "_", "b", "y", "t", "e", "s">>, ImageSize>>, <<<<"p", "r", "o", "c", "e", "s", "s", "i", "n", "g", "_", "t", "i", "m", "e">>, Now>> >>

IsControlled(key) == \E i \in 1..Len(ControlledMetadata) : ControlledMetadata[i][1] = key

\* C15: when the completion decodes directly to an object with a
\* "coin_analysis" key, the request is answered with the model's object in
\* which only the metadata subfields model_used, image_filename,
\* image_size_bytes and processing_time are overwritten: coin_analysis,
\* success and every other key are as the model wrote them, and neither the
\* alias resolution nor the text fallback is applied.
C15_TrustedReportKeepsAllButMetadata ==
    (pc = "responded" /\ upstream = "completion" /\ Loads(raw_analysis).ok
        /\ HasKeys(Loads(raw_analysis).v, <<<<"c", "o", "i", "n", "_", "a", "n", "a", "l", "y", "s", "i", "s">>>>)) =>
        LET model == Loads(raw_analysis).v
        IN  /\ status_code = 200
            /\ content.t = "obj"
            /\ enhanced = FALSE
            /\ beautiful_response = JNull
            /\ \A i \in 1..Len(model.k) :
                    model.k[i] # <<"m", "e", "t", "a", "d", "a", "t", "a">> =>
                        HasKeys(content, <<model.k[i]>>) /\ Get(content, model.k[i]) = model.kids[i]
            /\ \A j \in 1..Len(content.k) :
                    content.k[j] = <<"m", "e", "t", "a", "d", "a", "t", "a">> \/ HasKeys(model, <<content.k[j]>>)
            /\ LET made == Get(content, <<"m", "e", "t", "a", "d", "a", "t", "a">>)
                   given == Get(model, <<"m", "e", "t", "a", "d", "a", "t", "a">>)
               IN  /\ made.t = "obj"
                   /\ \A i \in 1..Len(ControlledMetadata) :
                        HasKeys(made, <<ControlledMetadata[i][1]>>)
                            /\ Get(made, ControlledMetadata[i][1]) = ControlledMetadata[i][2]
                   /\ \A j \in 1..Len(made.k) :
                        IsControlled(made.k[j])
                            \/ (HasKeys(given, <<made.k[j]>>)
                                    /\ Get(given, made.k[j]) = made.kids[j])
                   /\ given.t = "obj" =>
                        \A i \in 1..Len(given.k) : HasKeys(made, <<given.k[i]>>)

=============================================================================
